---- MODULE Spec2Model ----
(***************************************************************************)
(* Model of piranha's series_multiplier (src/src/series_multiplier.hpp):   *)
(* construction, operator()(), execute() with its single-threaded and      *)
(* multi-threaded paths, default_functor, rehasher, the density estimator, *)
(* blocked_multiplication and final_merge.                                 *)
(*                                                                         *)
(* The term type, the truncator and the hash set of a series are not part  *)
(* of series_multiplier.hpp: they are modelled from their contract and     *)
(* from the tests (poisson_series_02.cpp, array_hash_set.cpp).             *)
(*                                                                         *)
(* Scaling.  The source hard-codes a tile side of 256 and a minimum work   *)
(* of 100000 term-by-term products.  Both are kept as named definitions    *)
(* (bsize1, min_work) with small values, so that operands of two or three  *)
(* terms reach the full tiles, the remainder strips, the multi-threaded    *)
(* path and the estimator.  No formula depends on the numeric value.       *)
(***************************************************************************)
EXTENDS Integers, Sequences, FiniteSets, TLC

(***************************************************************************)
(* Bounds of the model.                                                    *)
(***************************************************************************)
\* largest number of terms of the first operand
MaxTerms1 == 3
\* largest number of terms of the second operand
MaxTerms2 == 2
\* largest value of settings::get_n_threads()
MaxThreads == 3
\* largest number of exceptions injected in one multiplication
MaxFaults == 1

\* the side of a tile: series_multiplier.hpp:871 hard-codes 256
bsize1 == 2
\* the minimum work of a thread: series_multiplier.hpp:229 and :728 hard-code
\* 100000
min_work == 2

(***************************************************************************)
(* Program constants.                                                      *)
(***************************************************************************)
\* series_multiplier.hpp:754
ntrials == 10
\* series_multiplier.hpp:757
multiplier == 4

(***************************************************************************)
(* Generic helpers on sequences.                                           *)
(***************************************************************************)
\* the concatenation of the sequences ss[i], ss[i + 1], ...
RECURSIVE FlattenFrom(_, _)
FlattenFrom(ss, i) == IF i > Len(ss) THEN <<>> ELSE ss[i] \o FlattenFrom(ss, i + 1)
Flatten(ss) == FlattenFrom(ss, 1)

RECURSIVE SumFrom(_, _)
SumFrom(s, i) == IF i > Len(s) THEN 0 ELSE s[i] + SumFrom(s, i + 1)
SumSeq(s) == SumFrom(s, 1)

Max(a, b) == IF a >= b THEN a ELSE b

RemoveAt(s, p) == SubSeq(s, 1, p - 1) \o SubSeq(s, p + 1, Len(s))

\* all the permutations of 1..n, as sequences
Perms(n) == {p \in [1..n -> 1..n] : \A a, b \in 1..n : a # b => p[a] # p[b]}

\* integer square root (integer::sqrt)
ISqrt(n) == CHOOSE r \in 0..n : r * r <= n /\ (r + 1) * (r + 1) > n

\* smallest power of two that is >= n, for n >= 1
RECURSIVE Pow2From(_, _)
Pow2From(p, n) == IF p >= n THEN p ELSE Pow2From(2 * p, n)
NextPow2(n) == Pow2From(1, n)

(***************************************************************************)
(* Terms.  A term is a coefficient and a key; the key is the exponent of   *)
(* x (polynomial term) or the multiplier n of cos(n x) (Poisson term).     *)
(***************************************************************************)
Term(c, k) == [cf |-> c, key |-> k]

is_ignorable(t) == t.cf = 0

\* integer division by two as integer::operator/= does it (towards zero)
divide_by_two(c) == IF c >= 0 THEN c \div 2 ELSE -((-c) \div 2)

\* term_type1::multiply: one term for a polynomial term, two for a Poisson
\* term (cos a cos b = 1/2 cos(a - b) + 1/2 cos(a + b), integer coefficients)
multiply(kind, t1, t2) ==
    IF kind = "poly"
    THEN << Term(t1.cf * t2.cf, t1.key + t2.key) >>
    ELSE LET c == divide_by_two(t1.cf * t2.cf)
             d == IF t1.key >= t2.key THEN t1.key - t2.key ELSE t2.key - t1.key
         IN  << Term(c, d), Term(c, t1.key + t2.key) >>

result_size(kind) == IF kind = "poly" THEN 1 ELSE 2

(***************************************************************************)
(* The truncator: a degree truncator with limit lim.                       *)
(***************************************************************************)
NoTruncator == [kind |-> "inactive", lim |-> 0]

is_active(tr) == tr.kind # "inactive"
is_skipping(tr) == tr.kind = "skipping"
is_filtering(tr) == tr.kind \in {"filtering", "skipping"}
compare_terms(tr, a, b) == a.key < b.key
trunc_skip(tr, t1, t2) == t1.key + t2.key > tr.lim
trunc_filter(tr, t) == t.key > tr.lim

(***************************************************************************)
(* The hash set of a series: b is the array of buckets (bucket i is        *)
(* b[i + 1], a sequence of terms), n is the recorded number of elements    *)
(* (m_n_elements), which the low-level methods do not maintain.            *)
(***************************************************************************)
EmptySet == [b |-> <<>>, n |-> 0]

bucket_count(h) == Len(h.b)

max_load_factor == 1

\* the terms stored, in iteration order (_m_begin() .. _m_end())
Items(h) == Flatten(h.b)

\* the terms stored, as a set (the iteration order left out)
TermsOf(h) == {Items(h)[i] : i \in 1..Len(Items(h))}

\* hash_set::_bucket, with the identity hash; not defined without buckets
_bucket(h, t) == t.key % bucket_count(h)

\* _find that compares the first element of the bucket only
_find_first_only(h, t, bidx) ==
    LET bk == h.b[bidx + 1]
    IN  IF Len(bk) > 0 /\ bk[1].key = t.key THEN 1 ELSE 0

\* hash_set::_find: the position of the key in the bucket, 0 for end()
_find(h, t, bidx) ==
    LET bk == h.b[bidx + 1]
        hit == {p \in 1..Len(bk) : bk[p].key = t.key}
    IN  IF hit = {} THEN 0 ELSE CHOOSE p \in hit : TRUE

\* hash_set::_unique_insert: no search, no update of the size
_unique_insert(h, t, bidx) == [h EXCEPT !.b[bidx + 1] = Append(@, t)]

\* hash_set::_erase: no update of the size
_erase(h, bidx, p) == [h EXCEPT !.b[bidx + 1] = RemoveAt(@, p)]

_update_size(h, n) == [h EXCEPT !.n = n]

\* series::insertion_cf_arithmetics<true>: coefficient += in place
insertion_cf_arithmetics(h, bidx, p, t) ==
    [h EXCEPT !.b[bidx + 1][p].cf = @ + t.cf]

\* an array of n buckets without terms
RECURSIVE Buckets(_)
Buckets(n) == IF n = 0 THEN <<>> ELSE Append(Buckets(n - 1), <<>>)

RECURSIVE Rebucket(_, _)
Rebucket(h, items) ==
    IF items = <<>> THEN h
    ELSE Rebucket(_unique_insert(h, Head(items), _bucket(h, Head(items))), Tail(items))

\* rehash that also honours a request too small for the elements
rehash_any_size(h, new_size) ==
    IF new_size = 0 /\ h.n = 0
    THEN EmptySet
    ELSE Rebucket([b |-> Buckets(NextPow2(new_size)), n |-> h.n], Items(h))

\* hash_set::rehash: nothing for a request too small for the elements, all
\* buckets released for 0 on an empty set, else a power of two >= new_size
rehash(h, new_size) ==
    IF new_size = 0
    THEN IF h.n = 0 THEN EmptySet ELSE h
    ELSE IF h.n > new_size * max_load_factor
    THEN h
    ELSE Rebucket([b |-> Buckets(NextPow2(new_size)), n |-> h.n], Items(h))

\* clear() that keeps the array of buckets
clear_keeps_buckets(h) == [b |-> Buckets(bucket_count(h)), n |-> 0]

\* hash_set::clear: no element and no bucket
clear(h) == EmptySet

\* series::insert: an ignorable term is dropped; on an equal key the
\* coefficients are added and a term that became ignorable is erased
insert(h, t) ==
    IF is_ignorable(t) THEN h
    ELSE LET h1 == IF bucket_count(h) = 0 THEN rehash(h, 1) ELSE h
             p1 == _find(h1, t, _bucket(h1, t))
         IN  IF p1 = 0
             THEN LET h2 == IF h1.n + 1 > bucket_count(h1) * max_load_factor
                            THEN rehash(h1, 2 * bucket_count(h1)) ELSE h1
                  IN  _update_size(_unique_insert(h2, t, _bucket(h2, t)), h2.n + 1)
             ELSE LET bi == _bucket(h1, t)
                      h3 == insertion_cf_arithmetics(h1, bi, p1, t)
                  IN  IF is_ignorable(h3.b[bi + 1][p1])
                      THEN _update_size(_erase(h3, bi, p1), h3.n - 1)
                      ELSE h3

(***************************************************************************)
(* The public operations of the hash set, on a set of keys (elements of    *)
(* coefficient 1).  An iterator is a bucket and a position in it.          *)
(***************************************************************************)
end_it == [bucket |-> -1, pos |-> 0]

\* hash_set::load_factor, as the fraction << size, bucket_count >>
load_factor(h) == IF bucket_count(h) = 0 THEN << 0, 1 >> ELSE << h.n, bucket_count(h) >>

\* bucket() without the test of the number of buckets
bucket_unchecked(h, k) ==
    [err |-> "", val |-> IF bucket_count(h) = 0 THEN 0 ELSE k % bucket_count(h)]

\* hash_set::bucket: an error on a set without buckets
bucket(h, k) ==
    IF bucket_count(h) = 0
    THEN [err |-> "zero_division_error", val |-> 0]
    ELSE [err |-> "", val |-> k % bucket_count(h)]

\* hash_set::find: end() on a set without buckets
find(h, k) ==
    IF bucket_count(h) = 0 THEN end_it
    ELSE LET b == _bucket(h, Term(1, k))
             p == _find(h, Term(1, k), b)
         IN  IF p = 0 THEN end_it ELSE [bucket |-> b, pos |-> p]

\* hash_set::_increase_size: one bucket, then twice as many
_increase_size(h) == rehash(h, IF bucket_count(h) = 0 THEN 1 ELSE 2 * bucket_count(h))

\* insert() that never makes room
hs_insert_no_growth(h, k) ==
    LET h1 == IF bucket_count(h) = 0 THEN _increase_size(h) ELSE h
        it == find(h1, k)
    IN  IF it # end_it
        THEN [h |-> h1, first |-> it, second |-> FALSE]
        ELSE LET b  == _bucket(h1, Term(1, k))
                 h3 == _update_size(_unique_insert(h1, Term(1, k), b), h1.n + 1)
             IN  [h |-> h3, first |-> [bucket |-> b, pos |-> Len(h3.b[b + 1])],
                  second |-> TRUE]

\* hash_set::insert: the set after the call and the pair returned
hs_insert(h, k) ==
    LET h1 == IF bucket_count(h) = 0 THEN _increase_size(h) ELSE h
        it == find(h1, k)
    IN  IF it # end_it
        THEN [h |-> h1, first |-> it, second |-> FALSE]
        ELSE LET h2 == IF h1.n + 1 > bucket_count(h1) * max_load_factor
                       THEN _increase_size(h1) ELSE h1
                 b  == _bucket(h2, Term(1, k))
                 h3 == _update_size(_unique_insert(h2, Term(1, k), b), h2.n + 1)
             IN  [h |-> h3, first |-> [bucket |-> b, pos |-> Len(h3.b[b + 1])],
                  second |-> TRUE]

\* hash_set::erase of the element an iterator points to
erase(h, it) == _update_size(_erase(h, it.bucket, it.pos), h.n - 1)

\* the hash set constructed from a number of buckets
hash_set(n_buckets) == rehash(EmptySet, n_buckets)

(***************************************************************************)
(* State.                                                                  *)
(***************************************************************************)
VARIABLES
    kind,           \* the term type of both series: "poly" or "poisson"
    m_s1,           \* first series: [sym, terms], terms in container order
    m_s2,           \* second series
    m_v1,           \* pointers to the terms of m_s1 (indices into m_s1.terms)
    m_v2,           \* pointers to the terms of m_s2
    trunc,          \* the truncator built by operator()()
    pc,             \* position of the calling thread
    n_threads,      \* the number of threads established by execute()
    functor_list,   \* the functors of the workers: [off, s1, s2]
    retval_list,    \* the series of the workers (their hash sets)
    wpc,            \* position of each worker thread of the current group
    exceptions,     \* exceptions (populate phase)
    retval,         \* the return series (its hash set)
    retval_sym,     \* the symbol set of the return series
    final_estimate, \* execute()'s final_estimate
    idx,            \* final_merge: the vector of (bucket, iterator) pairs
    e_vector,       \* final_merge: exceptions
    new_sizes,      \* final_merge: the size deltas pushed by the workers
    mw,             \* final_merge: the locals of the insertion workers
    touched,        \* the target buckets each insertion worker has accessed
    outcome,        \* what the call produced: "none", "returned", an exception
    cfg_n_threads,  \* settings::get_n_threads() as read by execute()
    main_thread,    \* whether execute() runs on the main thread
    handled,        \* final_merge: the workers that have processed each idx entry
    n_mult,         \* number of products made by blocked_multiplication
    n_est,          \* number of runs of estimate_final_series_size
    faults,         \* number of exceptions injected so far
    round,          \* 1, or 2 when the operands have been exchanged
    first_result,   \* what the first multiplication produced
    merge_input,    \* retval and retval_list as they were passed to final_merge
    bm,             \* a run of blocked_multiplication on its own
    fault_budget,   \* the number of exceptions that may be injected in a run
    th,             \* a run of the heuristics of execute() and rehasher()
    hset,           \* a hash set on its own, under its public operations
    sync,           \* the threads of execute() and their mutexes, on their own
    est,            \* a run of rehasher() or of the estimator, trial by trial
    fi              \* a functor on its own: its calls and its insertions

vars == << kind, m_s1, m_s2, m_v1, m_v2, trunc, pc, n_threads, functor_list,
           retval_list, wpc, exceptions, retval, retval_sym, final_estimate,
           idx, e_vector, new_sizes, mw, touched, outcome, cfg_n_threads,
           main_thread, handled, n_mult, n_est, faults, round, first_result,
           merge_input, bm, fault_budget, th, hset, sync, est, fi >>

(***************************************************************************)
(* default_functor.  A functor is [off, s1, s2]: m_ptr1 = &m_v1[0] + off,  *)
(* m_s1 = s1, m_ptr2 = &m_v2[0], m_s2 = s2.  v1 and v2 are the pointer     *)
(* arrays as they are when the functor is used.                            *)
(***************************************************************************)
Functor(off, s1, s2) == [off |-> off, s1 |-> s1, s2 |-> s2]

\* *m_ptr1[i] and *m_ptr2[j]
Ptr1(f, v1, i) == m_s1.terms[v1[f.off + i + 1]]
Ptr2(f, v2, j) == m_s2.terms[v2[j + 1]]

\* std::sort of the pointers in positions lo .. hi of v, comparing pointees
RECURSIVE InsertSorted(_, _, _, _)
InsertSorted(tr, terms, sorted, x) ==
    IF sorted = <<>> THEN << x >>
    ELSE IF compare_terms(tr, terms[x], terms[Head(sorted)])
         THEN << x >> \o sorted
         ELSE << Head(sorted) >> \o InsertSorted(tr, terms, Tail(sorted), x)

RECURSIVE SortPtrs(_, _, _)
SortPtrs(tr, terms, s) ==
    IF s = <<>> THEN <<>>
    ELSE InsertSorted(tr, terms, SortPtrs(tr, terms, Tail(s)), Head(s))

SortRange(tr, terms, v, lo, hi) ==
    LET sorted == SortPtrs(tr, terms, SubSeq(v, lo, hi))
    IN  [n \in 1..Len(v) |-> IF n >= lo /\ n <= hi THEN sorted[n - lo + 1] ELSE v[n]]

\* default_functor::sort_for_skip on the first and on the second array
sort_for_skip1(tr, f, v1) ==
    IF is_active(tr) /\ is_skipping(tr)
    THEN SortRange(tr, m_s1.terms, v1, f.off + 1, f.off + f.s1) ELSE v1

sort_for_skip2(tr, f, v2) ==
    IF is_active(tr) /\ is_skipping(tr)
    THEN SortRange(tr, m_s2.terms, v2, 1, f.s2) ELSE v2

\* default_functor::skip
functor_skip(tr, f, v1, v2, i, j) ==
    IF is_active(tr) /\ is_skipping(tr)
    THEN trunc_skip(tr, Ptr1(f, v1, i), Ptr2(f, v2, j)) ELSE FALSE

\* default_functor::filter
functor_filter(tr, t) ==
    IF is_active(tr) /\ is_filtering(tr) THEN trunc_filter(tr, t) ELSE FALSE

\* default_functor::operator(): the product stored in m_tmp
functor_call(f, v1, v2, i, j) == multiply(kind, Ptr1(f, v1, i), Ptr2(f, v2, j))

\* insert_impl without the test of filter: every term is inserted
inserter_unfiltered(tr, CheckFilter, h, t) == insert(h, t)

\* insert_impl without the test of the traits: filter is consulted for a
\* skipping truncator as well
inserter_filters_skipping(tr, CheckFilter, h, t) ==
    IF CheckFilter /\ functor_filter(tr, t)
    THEN h
    ELSE insert(h, t)

\* default_functor::inserter / insert_impl on one term of m_tmp
inserter(tr, CheckFilter, h, t) ==
    IF ~is_skipping(tr) /\ CheckFilter /\ functor_filter(tr, t)
    THEN h
    ELSE insert(h, t)

\* default_functor::insert<CheckFilter>() on all the terms of m_tmp
RECURSIVE functor_insert(_, _, _, _)
functor_insert(tr, CheckFilter, h, tmp) ==
    IF tmp = <<>> THEN h
    ELSE functor_insert(tr, CheckFilter, inserter(tr, CheckFilter, h, Head(tmp)), Tail(tmp))

\* the values of f.skip(i, j) over the whole index rectangle
SkipTable(tr, f, v1, v2) ==
    [q \in (0..(f.s1 - 1)) \X (0..(f.s2 - 1)) |-> functor_skip(tr, f, v1, v2, q[1], q[2])]

(***************************************************************************)
(* blocked_multiplication: the sequence of index pairs (i, j) for which    *)
(* f(i, j) and f.insert() are called, in the order of the calls.  sk is    *)
(* the table of f.skip.                                                    *)
(***************************************************************************)
\* the inner loop with skip tested after the multiplication: the first
\* skipped pair of the tile is multiplied too
InnerLoop_late(sk, i, j_start, j_end) ==
    LET stops == {j \in j_start..(j_end - 1) : sk[<<i, j>>]}
        stop  == IF stops = {} THEN j_end
                 ELSE (CHOOSE j \in stops : \A k \in stops : j <= k) + 1
    IN  [n \in 1..(stop - j_start) |-> <<i, j_start + n - 1>>]

\* the inner loop on j: up to the first skipped pair
InnerLoop(sk, i, j_start, j_end) ==
    LET stops == {j \in j_start..(j_end - 1) : sk[<<i, j>>]}
        stop  == IF stops = {} THEN j_end
                 ELSE CHOOSE j \in stops : \A k \in stops : j <= k
    IN  [n \in 1..(stop - j_start) |-> <<i, j_start + n - 1>>]

\* the two loops of a tile with j outside and i inside
TileLoop_column_major(sk, i_start, i_end, j_start, j_end) ==
    LET kept == {q \in (i_start..(i_end - 1)) \X (j_start..(j_end - 1)) :
                    \E n \in 1..Len(InnerLoop(sk, q[1], j_start, j_end)) :
                        InnerLoop(sk, q[1], j_start, j_end)[n] = q}
    IN  Flatten([m \in 1..(j_end - j_start) |->
            Flatten([n \in 1..(i_end - i_start) |->
                IF << i_start + n - 1, j_start + m - 1 >> \in kept
                THEN << << i_start + n - 1, j_start + m - 1 >> >> ELSE << >>])])

\* for (i = i_start; i < i_end; ++i) for (j = j_start; j < j_end; ++j)
TileLoop(sk, i_start, i_end, j_start, j_end) ==
    Flatten([n \in 1..(i_end - i_start) |-> InnerLoop(sk, i_start + n - 1, j_start, j_end)])

\* blocked_multiplication without its last loop, rem1 * rem2
blocked_multiplication_no_corner(sk, size1, size2) ==
    LET nblocks1 == size1 \div bsize1
        bsize2 == bsize1
        nblocks2 == size2 \div bsize2
        i_ir_start == nblocks1 * bsize1
        i_ir_end == size1
        j_ir_start == nblocks2 * bsize2
        j_ir_end == size2
        \* regulars1 * regulars2, then regulars1 * rem2
        Regular(n1) ==
            Flatten([m \in 1..nblocks2 |->
                        TileLoop(sk, n1 * bsize1, n1 * bsize1 + bsize1,
                                 (m - 1) * bsize2, (m - 1) * bsize2 + bsize2)])
            \o TileLoop(sk, n1 * bsize1, n1 * bsize1 + bsize1, j_ir_start, j_ir_end)
        \* rem1 * regulars2
        Rem1 == Flatten([m \in 1..nblocks2 |->
                        TileLoop(sk, i_ir_start, i_ir_end,
                                 (m - 1) * bsize2, (m - 1) * bsize2 + bsize2)])
    IN  Flatten([m \in 1..nblocks1 |-> Regular(m - 1)])
        \o Rem1

\* series_multiplier::blocked_multiplication: the pairs multiplied, in order
blocked_multiplication(sk, size1, size2) ==
    LET nblocks1 == size1 \div bsize1
        bsize2 == bsize1
        nblocks2 == size2 \div bsize2
        i_ir_start == nblocks1 * bsize1
        i_ir_end == size1
        j_ir_start == nblocks2 * bsize2
        j_ir_end == size2
        \* regulars1 * regulars2, then regulars1 * rem2
        Regular(n1) ==
            Flatten([m \in 1..nblocks2 |->
                        TileLoop(sk, n1 * bsize1, n1 * bsize1 + bsize1,
                                 (m - 1) * bsize2, (m - 1) * bsize2 + bsize2)])
            \o TileLoop(sk, n1 * bsize1, n1 * bsize1 + bsize1, j_ir_start, j_ir_end)
        \* rem1 * regulars2
        Rem1 == Flatten([m \in 1..nblocks2 |->
                        TileLoop(sk, i_ir_start, i_ir_end,
                                 (m - 1) * bsize2, (m - 1) * bsize2 + bsize2)])
    IN  Flatten([m \in 1..nblocks1 |-> Regular(m - 1)])
        \o Rem1
        \o TileLoop(sk, i_ir_start, i_ir_end, j_ir_start, j_ir_end)

\* f(i, j); f.insert(); over a sequence of pairs, into the series h
RECURSIVE MultiplyInsert(_, _, _, _, _, _)
MultiplyInsert(tr, f, v1, v2, h, pairs) ==
    IF pairs = <<>> THEN h
    ELSE MultiplyInsert(tr, f, v1, v2,
            functor_insert(tr, TRUE, h, functor_call(f, v1, v2, Head(pairs)[1], Head(pairs)[2])),
            Tail(pairs))

\* the pairs blocked_multiplication(f, f.s1, f.s2) multiplies
FunctorPairs(tr, f, v1, v2) == blocked_multiplication(SkipTable(tr, f, v1, v2), f.s1, f.s2)

(***************************************************************************)
(* estimate_final_series_size.  The two shuffles of a trial are any two    *)
(* permutations; the operator below is the sweep of one trial for given    *)
(* shuffled index vectors (0-based indices in p1, p2).                     *)
(***************************************************************************)
\* no rotation of the second index vector
RotateLast_none(v) == v

\* std::rotate(begin, end - 1, end): the last element comes first
RotateLast(v) == IF Len(v) <= 1 THEN v ELSE << v[Len(v)] >> \o SubSeq(v, 1, Len(v) - 1)

\* count_n_filtered
RECURSIVE count_n_filtered(_, _)
count_n_filtered(tr, tmp) ==
    IF tmp = <<>> THEN 0
    ELSE (IF functor_filter(tr, Head(tmp)) THEN 1 ELSE 0) + count_n_filtered(tr, Tail(tmp))

\* the while loop of one trial; st = [count, count_filtered, it1, it2, v2, h]
\* and, for the record, the pairs multiplied, the size of the series after
\* each of them and whether the loop was left by the break
RECURSIVE Sweep(_, _, _, _, _, _, _)
Sweep(tr, f, v1, v2, max_M, p1, st) ==
    IF ~(st.count < max_M) THEN st
    ELSE LET wrap == st.it1 = Len(p1) + 1
             it1  == IF wrap THEN 1 ELSE st.it1
             pv2  == IF wrap THEN RotateLast(st.v2) ELSE st.v2
             it2a == IF wrap THEN 1 ELSE st.it2
             it2  == IF it2a = Len(pv2) + 1 THEN 1 ELSE it2a
             tmp  == functor_call(f, v1, v2, p1[it1], pv2[it2])
             h1   == functor_insert(tr, FALSE, st.h, tmp)
             pairs == Append(st.pairs, << p1[it1], pv2[it2] >>)
             grown == Append(st.grown, h1.n)
         IN  IF h1.n # st.count + result_size(kind)
             THEN [st EXCEPT !.h = h1, !.v2 = pv2, !.pairs = pairs,
                             !.grown = grown, !.broke = TRUE]
             ELSE Sweep(tr, f, v1, v2, max_M, p1,
                        [count |-> st.count + result_size(kind),
                         count_filtered |-> st.count_filtered + count_n_filtered(tr, tmp),
                         it1 |-> it1 + 1, it2 |-> it2 + 1, v2 |-> pv2, h |-> h1,
                         pairs |-> pairs, grown |-> grown, broke |-> FALSE])

\* the maximum number of random multiplications of a trial
MaxM(size1, size2) == ISqrt((size1 * size2) \div multiplier)

\* the (count, count_filtered) pairs one trial can end with
TrialOutcomes(tr, f, v1, v2) ==
    LET max_M == MaxM(f.s1, f.s2)
        Shift(p) == [n \in 1..Len(p) |-> p[n] - 1]
        End(p1, p2) == Sweep(tr, f, v1, v2, max_M, Shift(p1),
                             [count |-> 0, count_filtered |-> 0, it1 |-> 1, it2 |-> 1,
                              v2 |-> Shift(p2), h |-> EmptySet, pairs |-> << >>,
                              grown |-> << >>, broke |-> FALSE])
    IN  {<< End(p1, p2).count, End(p1, p2).count_filtered >> :
            <<p1, p2>> \in Perms(f.s1) \X Perms(f.s2)}

\* the (total, filtered) pairs after n trials
RECURSIVE TrialSums(_, _)
TrialSums(n, outs) ==
    IF n = 0 THEN {<<0, 0>>}
    ELSE {<< a[1] + b[1], a[2] + b[2] >> : <<a, b>> \in TrialSums(n - 1, outs) \X outs}

\* the final formula; integer::operator/ throws on a zero divisor
\* what a run of the estimator ends with: a value, or an exception
Estimate(n) == [err |-> "", val |-> n]
EstimateError(what) == [err |-> what, val |-> 0]
IsError(e) == e.err # ""

EstimateOf(total, filtered) ==
    IF total = 0 THEN EstimateError("zero_division_error")
    ELSE LET mean == total \div ntrials
         IN  Estimate((mean * mean * multiplier * (total - filtered)) \div total)

\* the values estimate_final_series_size(f, f.s1, f.s2, retval) can return
\* (or the exception it can end with); retval is left without terms
estimate_final_series_size(tr, f, v1, v2) ==
    IF f.s1 = 0 \/ f.s2 = 0 THEN {Estimate(0)}
    ELSE {EstimateOf(q[1], q[2]) : q \in TrialSums(ntrials, TrialOutcomes(tr, f, v1, v2))}

\* the test made on the product of the sizes
EstimatesFor_by_product(mwork, s1, s2) == s1 * s2 >= mwork

\* s2 && s1 >= 100000u / s2, for a hard-coded minimum of mwork
EstimatesFor(mwork, s1, s2) == s2 # 0 /\ s1 >= mwork \div s2

\* whether rehasher runs the estimator
RehasherEstimates(s1, s2) == EstimatesFor(min_work, s1, s2)

\* rehasher whose handler leaves the series as the estimator left it
rehasher_keeps_terms(r, s1, s2, e) ==
    IF RehasherEstimates(s1, s2)
    THEN IF IsError(e)
         THEN [h |-> r, first |-> FALSE, second |-> 0]
         ELSE [h |-> rehash(r, e.val), first |-> TRUE, second |-> e.val]
    ELSE [h |-> r, first |-> FALSE, second |-> 0]

\* rehasher: the series r after the call, for an estimator ending with e
rehasher(r, s1, s2, e) ==
    IF RehasherEstimates(s1, s2)
    THEN IF IsError(e)
         THEN [h |-> clear(r), first |-> FALSE, second |-> 0]
         ELSE [h |-> rehash(r, e.val), first |-> TRUE, second |-> e.val]
    ELSE [h |-> r, first |-> FALSE, second |-> 0]

(***************************************************************************)
(* The inputs of the model.                                                *)
(***************************************************************************)
\* the coefficients of the terms of the first and of the second operand
Coeffs1 == {-1, 1, 2}
Coeffs2 == {-1, 1}

\* the limits of the degree truncator
TruncLimits == {1}

Truncators ==
    {NoTruncator} \cup
    {[kind |-> k, lim |-> l] : k \in {"filtering", "skipping"}, l \in TruncLimits}

\* the series of n terms with keys n-1, ..., 0 in container order
SeriesOfSize(n, coeffs) ==
    {[i \in 1..n |-> Term(c[i], n - i)] : c \in [1..n -> coeffs]}

Operands(max, coeffs) == UNION {SeriesOfSize(n, coeffs) : n \in 0..max}

\* the symbol set of a default-constructed series
NoSymbols == "{}"

Series(sym, terms) == [sym |-> sym, terms |-> terms]

size(sr) == Len(sr.terms)
empty(sr) == sr.terms = <<>>

\* what the call produced: nothing yet, a series, or an exception
NoOutcome == [st |-> "none", what |-> "", thread |-> 0]
Returned == [st |-> "returned", what |-> "", thread |-> 0]
Thrown(what, thread) == [st |-> "thrown", what |-> what, thread |-> thread]

Idle(n) == [i \in 1..n |-> "done"]
Running(n) == [i \in 1..n |-> "run"]
AllDone == \A i \in DOMAIN wpc : wpc[i] = "done"

NoMerge == [retval |-> EmptySet, retval_list |-> <<>>]

\* blocked_multiplication on its own: nothing run
NoRun == [size1 |-> 0, size2 |-> 0, sk |-> <<>>, st |-> "none", pairs |-> <<>>]
\* the hash set on its own: nothing done
NoResult_hs == [it |-> end_it, second |-> FALSE, err |-> "", val |-> 0]
NoSet == [h |-> EmptySet, other |-> EmptySet, keys |-> {}, op |-> "none", arg |-> 0,
          res |-> NoResult_hs, before |-> EmptySet, prev |-> "none", ops |-> 0]
\* the threads and mutexes on their own: nothing started
NoSync == [phase |-> "none", w |-> << >>, mtx_e |-> 0, mtx_m |-> 0, exc |-> 0,
           sizes |-> 0, outcome |-> "none"]
\* the functor on its own: nothing multiplied
NoInsert == [st |-> "none", tr |-> NoTruncator, v1 |-> << >>, v2 |-> << >>,
             h |-> EmptySet, before |-> EmptySet, tmp |-> << >>,
             CheckFilter |-> FALSE, n |-> 0]
\* the estimator on its own: nothing run
NoTrial == [pairs |-> << >>, grown |-> << >>, broke |-> FALSE, count |-> 0,
            count_filtered |-> 0]
NoEst == [via |-> "none", st |-> "none", tr |-> NoTruncator, v1 |-> << >>,
          v2 |-> << >>, n |-> 0, total |-> 0, filtered |-> 0, r |-> EmptySet,
          last |-> NoTrial, result |-> [err |-> "", val |-> 0], first |-> FALSE]
NoHeuristic == [cfg |-> 1, setting |-> 0, size1 |-> 0, size2 |-> 0, n_threads |-> 0,
                blocks |-> <<>>, estimates |-> FALSE, st |-> "none"]

\* the record of a first multiplication, kept for the second one
NoResult == [terms |-> {}, trunc |-> NoTruncator, cfg |-> 1, main |-> TRUE,
             st |-> "none"]

(***************************************************************************)
(* Init: the two series, before the multiplier is constructed.             *)
(***************************************************************************)
Blank ==
    /\ m_v1 = <<>> /\ m_v2 = <<>>
    /\ trunc = NoTruncator
    /\ n_threads = 0
    /\ functor_list = <<>> /\ retval_list = <<>>
    /\ wpc = <<>>
    /\ exceptions = <<>>
    /\ retval = EmptySet /\ retval_sym = NoSymbols
    /\ final_estimate = 0
    /\ idx = <<>> /\ e_vector = <<>> /\ new_sizes = <<>> /\ mw = <<>>
    /\ touched = <<>> /\ handled = <<>>
    /\ outcome = NoOutcome
    /\ cfg_n_threads = 1 /\ main_thread = TRUE
    /\ n_mult = 0 /\ n_est = 0 /\ faults = 0
    /\ merge_input = NoMerge

Init ==
    /\ kind \in {"poly", "poisson"}
    /\ m_s1 \in {Series("x", t) : t \in Operands(MaxTerms1, Coeffs1)}
    /\ m_s2 \in {Series(y, t) : <<y, t>> \in {"x", "y"} \X Operands(MaxTerms2, Coeffs2)}
    /\ pc = "construct"
    /\ round = 1 /\ first_result = NoResult
    /\ bm = NoRun
    /\ fault_budget = MaxFaults
    /\ th = NoHeuristic
    /\ hset = NoSet
    /\ fi = NoInsert
    /\ est = NoEst
    /\ sync = NoSync
    /\ Blank

(***************************************************************************)
(* series_multiplier::series_multiplier                                    *)
(***************************************************************************)
\* the constructor that fills the vectors of pointers before it compares
\* the symbol sets
Construct_checks_last ==
    /\ pc = "construct"
    /\ IF empty(m_s1) \/ empty(m_s2)
       THEN UNCHANGED << m_v1, m_v2 >>
       ELSE /\ m_v1' = [i \in 1..size(m_s1) |-> i]
            /\ m_v2' = [i \in 1..size(m_s2) |-> i]
    /\ IF m_s1.sym # m_s2.sym
       THEN /\ outcome' = Thrown("invalid_argument", 0)
            /\ pc' = "done"
       ELSE /\ outcome' = outcome
            /\ pc' = "call"
    /\ UNCHANGED << kind, m_s1, m_s2, trunc, n_threads, functor_list, retval_list,
                    wpc, exceptions, retval, retval_sym, final_estimate, idx,
                    e_vector, new_sizes, mw, touched, cfg_n_threads, main_thread,
                    handled, n_mult, n_est, faults, round, first_result,
                    merge_input, bm, fault_budget, th, hset, sync, est, fi >>

Construct ==
    /\ pc = "construct"
    /\ IF m_s1.sym # m_s2.sym
       THEN /\ outcome' = Thrown("invalid_argument", 0)
            /\ pc' = "done"
            /\ UNCHANGED << m_v1, m_v2 >>
       ELSE /\ outcome' = outcome
            /\ pc' = "call"
            /\ IF empty(m_s1) \/ empty(m_s2)
               THEN UNCHANGED << m_v1, m_v2 >>
               ELSE /\ m_v1' = [i \in 1..size(m_s1) |-> i]
                    /\ m_v2' = [i \in 1..size(m_s2) |-> i]
    /\ UNCHANGED << kind, m_s1, m_s2, trunc, n_threads, functor_list, retval_list,
                    wpc, exceptions, retval, retval_sym, final_estimate, idx,
                    e_vector, new_sizes, mw, touched, cfg_n_threads, main_thread,
                    handled, n_mult, n_est, faults, round, first_result,
                    merge_input, bm, fault_budget, th, hset, sync, est, fi >>

(***************************************************************************)
(* operator()() and the head of execute(): the truncator, the empty        *)
(* operands, the number of threads and the choice of the path.             *)
(***************************************************************************)
\* the configured number of threads, whatever the work
ThreadsFor_unreduced(mwork, cfg, size1, size2) ==
    IF cfg > size1 THEN size1 ELSE cfg

\* as many threads as the work allows, whatever the setting
ThreadsFor_by_work(mwork, cfg, size1, size2) ==
    LET work_size == size1 * size2
        n1 == IF cfg # 1 THEN Max(1, work_size \div mwork) ELSE cfg
    IN  IF n1 > size1 THEN size1 ELSE n1

\* the number of threads execute() establishes when the hard-coded minimum
\* work is mwork
ThreadsFor(mwork, cfg, size1, size2) ==
    LET work_size == size1 * size2
        n1 == IF cfg # 1
              THEN IF work_size \div cfg >= mwork THEN cfg
                   ELSE Max(1, work_size \div mwork)
              ELSE cfg
    IN  IF n1 > size1 THEN size1 ELSE n1

\* the number of threads execute() establishes
EstablishThreads(cfg, size1, size2) == ThreadsFor(min_work, cfg, size1, size2)

\* the single-threaded path is taken whatever the thread of the call
GoesSingle_any_thread(n, main) == n = 1

\* n_threads == 1u || get_main_thread_id() != this_thread::get_id()
GoesSingle(n, main) == n = 1 \/ ~main

Call ==
    /\ pc = "call"
    /\ \E tr \in (IF round = 1 THEN Truncators ELSE {first_result.trunc}),
          cfg \in (IF round = 1 THEN 1..MaxThreads ELSE {first_result.cfg}),
          main \in (IF round = 1 THEN BOOLEAN ELSE {first_result.main}) :
        /\ trunc' = tr
        /\ cfg_n_threads' = cfg
        /\ main_thread' = main
        /\ IF empty(m_s1) \/ empty(m_s2)
           THEN /\ retval' = EmptySet
                /\ retval_sym' = NoSymbols
                /\ outcome' = Returned
                /\ pc' = "done"
                /\ UNCHANGED n_threads
           ELSE /\ n_threads' = EstablishThreads(cfg, Len(m_v1), Len(m_v2))
                /\ pc' = IF GoesSingle(n_threads', main) THEN "single" ELSE "multi"
                /\ UNCHANGED << retval, retval_sym, outcome >>
    /\ UNCHANGED << kind, m_s1, m_s2, m_v1, m_v2, functor_list, retval_list, wpc,
                    exceptions, final_estimate, idx, e_vector, new_sizes, mw,
                    touched, handled, n_mult, n_est, faults, round, first_result,
                    merge_input, bm, fault_budget, th, hset, sync, est, fi >>

(***************************************************************************)
(* execute(), single-threaded path.                                        *)
(***************************************************************************)
\* the outcomes of the estimator as rehasher(f, r, s1, s2) may see them: the
\* values it can return, its own error, and an injected failure
RehasherSees(tr, f, v1, v2, s1, s2) ==
    IF RehasherEstimates(s1, s2)
    THEN estimate_final_series_size(tr, f, v1, v2)
         \cup (IF faults < fault_budget THEN {EstimateError("overflow_error")} ELSE {})
    ELSE {Estimate(0)}

\* the single-threaded path without the assignment of the symbol set
Single_default_symbols ==
    /\ pc = "single"
    /\ LET f  == Functor(0, Len(m_v1), Len(m_v2))
           v1 == sort_for_skip1(trunc, f, m_v1)
           v2 == sort_for_skip2(trunc, f, m_v2)
           pairs == FunctorPairs(trunc, f, v1, v2)
       IN  /\ m_v1' = v1
           /\ m_v2' = v2
           /\ n_est' = n_est + (IF RehasherEstimates(f.s1, f.s2) THEN 1 ELSE 0)
           /\ \E e \in RehasherSees(trunc, f, v1, v2, f.s1, f.s2) :
                LET rh == rehasher(EmptySet, f.s1, f.s2, e)
                    inj == IF e.err = "overflow_error" THEN 1 ELSE 0
                IN  \/ /\ retval' = MultiplyInsert(trunc, f, v1, v2, rh.h, pairs)
                       /\ retval_sym' = NoSymbols
                       /\ outcome' = Returned
                       /\ n_mult' = n_mult + Len(pairs)
                       /\ faults' = faults + inj
                    \/ /\ faults + inj < fault_budget
                       /\ \E p \in 0..(Len(pairs) - 1) :
                            n_mult' = n_mult + p
                       /\ retval' = EmptySet
                       /\ retval_sym' = NoSymbols
                       /\ outcome' = Thrown("error", 0)
                       /\ faults' = faults + inj + 1
    /\ pc' = "done"
    /\ UNCHANGED << kind, m_s1, m_s2, trunc, n_threads, functor_list, retval_list,
                    wpc, exceptions, final_estimate, idx, e_vector, new_sizes, mw,
                    touched, cfg_n_threads, main_thread, handled, round,
                    first_result,
                    merge_input, bm, fault_budget, th, hset, sync, est, fi >>

Single ==
    /\ pc = "single"
    /\ LET f  == Functor(0, Len(m_v1), Len(m_v2))
           v1 == sort_for_skip1(trunc, f, m_v1)
           v2 == sort_for_skip2(trunc, f, m_v2)
           pairs == FunctorPairs(trunc, f, v1, v2)
       IN  /\ m_v1' = v1
           /\ m_v2' = v2
           /\ n_est' = n_est + (IF RehasherEstimates(f.s1, f.s2) THEN 1 ELSE 0)
           /\ \E e \in RehasherSees(trunc, f, v1, v2, f.s1, f.s2) :
                LET rh == rehasher(EmptySet, f.s1, f.s2, e)
                    inj == IF e.err = "overflow_error" THEN 1 ELSE 0
                IN  \/ /\ retval' = MultiplyInsert(trunc, f, v1, v2, rh.h, pairs)
                       /\ retval_sym' = m_s1.sym
                       /\ outcome' = Returned
                       /\ n_mult' = n_mult + Len(pairs)
                       /\ faults' = faults + inj
                    \/ /\ faults + inj < fault_budget
                       /\ \E p \in 0..(Len(pairs) - 1) :
                            n_mult' = n_mult + p
                       /\ retval' = EmptySet
                       /\ retval_sym' = NoSymbols
                       /\ outcome' = Thrown("error", 0)
                       /\ faults' = faults + inj + 1
    /\ pc' = "done"
    /\ UNCHANGED << kind, m_s1, m_s2, trunc, n_threads, functor_list, retval_list,
                    wpc, exceptions, final_estimate, idx, e_vector, new_sizes, mw,
                    touched, cfg_n_threads, main_thread, handled, round,
                    first_result,
                    merge_input, bm, fault_budget, th, hset, sync, est, fi >>

(***************************************************************************)
(* execute(), multi-threaded path: the populate phase.                     *)
(***************************************************************************)
\* size1 / n_threads
block_size(size1, n) == size1 \div n

\* every block of block_size terms, the last one too
BlockTerms_no_remainder(size1, n, i) == block_size(size1, n)

\* the number of terms of block i (0-based), as computed at lines 268 and 278
BlockTerms(size1, n, i) ==
    IF i = n - 1 THEN size1 - i * block_size(size1, n) ELSE block_size(size1, n)

\* the pointer array after the construction of the functors of blocks 0 .. i-1
RECURSIVE SortBlocks(_, _, _)
SortBlocks(fl, v1, i) ==
    IF i = 0 THEN v1
    ELSE sort_for_skip1(trunc, fl[i], SortBlocks(fl, v1, i - 1))

\* the functors sort the terms of the first series, not the pointers
Spawn_sorts_terms ==
    /\ pc = "multi"
    /\ LET size1 == Len(m_v1)
           size2 == Len(m_v2)
           fl == [i \in 1..n_threads |->
                    Functor((i - 1) * block_size(size1, n_threads),
                            BlockTerms(size1, n_threads, i - 1), size2)]
           sorted == SortBlocks(fl, m_v1, n_threads)
       IN  /\ functor_list' = fl
           /\ retval_list' = [i \in 1..n_threads |-> EmptySet]
           /\ m_s1' = [m_s1 EXCEPT !.terms = [n \in 1..size1 |-> m_s1.terms[sorted[n]]]]
           /\ m_v2' = sort_for_skip2(trunc, fl[1], m_v2)
           /\ mw' = [i \in 1..n_threads |-> [s1 |-> BlockTerms(size1, n_threads, i - 1)]]
    /\ wpc' = Running(n_threads)
    /\ exceptions' = <<>>
    /\ pc' = "join_populate"
    /\ UNCHANGED << kind, m_s2, m_v1, trunc, n_threads, retval, retval_sym,
                    final_estimate, idx, e_vector, new_sizes, touched, outcome,
                    cfg_n_threads, main_thread, handled, n_mult, n_est, faults,
                    round, first_result, merge_input, bm, fault_budget, th, hset, sync, est, fi >>

Spawn ==
    /\ pc = "multi"
    /\ LET size1 == Len(m_v1)
           size2 == Len(m_v2)
           fl == [i \in 1..n_threads |->
                    Functor((i - 1) * block_size(size1, n_threads),
                            BlockTerms(size1, n_threads, i - 1), size2)]
       IN  /\ functor_list' = fl
           /\ retval_list' = [i \in 1..n_threads |-> EmptySet]
           /\ m_v1' = SortBlocks(fl, m_v1, n_threads)
           /\ m_v2' = sort_for_skip2(trunc, fl[1], m_v2)
           /\ mw' = [i \in 1..n_threads |-> [s1 |-> BlockTerms(size1, n_threads, i - 1)]]
    /\ wpc' = Running(n_threads)
    /\ exceptions' = <<>>
    /\ pc' = "join_populate"
    /\ UNCHANGED << kind, m_s1, m_s2, trunc, n_threads, retval, retval_sym,
                    final_estimate, idx, e_vector, new_sizes, touched, outcome,
                    cfg_n_threads, main_thread, handled, n_mult, n_est, faults,
                    round, first_result,
                    merge_input, bm, fault_budget, th, hset, sync, est, fi >>

\* the threads all accumulate into the series of the first block
PopulateWorker_shared_accumulator(i) ==
    /\ pc = "join_populate"
    /\ wpc[i] = "run"
    /\ LET f  == functor_list[i]
           s1 == mw[i].s1
           size2 == Len(m_v2)
           pairs == blocked_multiplication(SkipTable(trunc, f, m_v1, m_v2), s1, size2)
       IN  /\ n_est' = n_est + (IF RehasherEstimates(s1, size2) THEN 1 ELSE 0)
           /\ \E e \in RehasherSees(trunc, f, m_v1, m_v2, s1, size2) :
                LET rh == rehasher(retval_list[1], s1, size2, e)
                    inj == IF e.err = "overflow_error" THEN 1 ELSE 0
                IN  \/ /\ retval_list' = [retval_list EXCEPT ![1] =
                                MultiplyInsert(trunc, f, m_v1, m_v2, rh.h, pairs)]
                       /\ n_mult' = n_mult + Len(pairs)
                       /\ faults' = faults + inj
                       /\ UNCHANGED exceptions
                    \/ /\ faults + inj < fault_budget
                       /\ \E p \in 0..(Len(pairs) - 1) :
                            /\ retval_list' = [retval_list EXCEPT ![1] =
                                    MultiplyInsert(trunc, f, m_v1, m_v2, rh.h,
                                                   SubSeq(pairs, 1, p))]
                            /\ n_mult' = n_mult + p
                       /\ exceptions' = Append(exceptions, Thrown("error", i))
                       /\ faults' = faults + inj + 1
    /\ wpc' = [wpc EXCEPT ![i] = "done"]
    /\ UNCHANGED << kind, m_s1, m_s2, m_v1, m_v2, trunc, pc, n_threads,
                    functor_list, retval, retval_sym, final_estimate, idx,
                    e_vector, new_sizes, mw, touched, outcome, cfg_n_threads,
                    main_thread, handled, round, first_result,
                    merge_input, bm, fault_budget, th, hset, sync, est, fi >>

\* the body of the thread of block i
PopulateWorker(i) ==
    /\ pc = "join_populate"
    /\ wpc[i] = "run"
    /\ LET f  == functor_list[i]
           s1 == mw[i].s1
           size2 == Len(m_v2)
           pairs == blocked_multiplication(SkipTable(trunc, f, m_v1, m_v2), s1, size2)
       IN  /\ n_est' = n_est + (IF RehasherEstimates(s1, size2) THEN 1 ELSE 0)
           /\ \E e \in RehasherSees(trunc, f, m_v1, m_v2, s1, size2) :
                LET rh == rehasher(retval_list[i], s1, size2, e)
                    inj == IF e.err = "overflow_error" THEN 1 ELSE 0
                IN  \/ /\ retval_list' = [retval_list EXCEPT ![i] =
                                MultiplyInsert(trunc, f, m_v1, m_v2, rh.h, pairs)]
                       /\ n_mult' = n_mult + Len(pairs)
                       /\ faults' = faults + inj
                       /\ UNCHANGED exceptions
                    \/ /\ faults + inj < fault_budget
                       /\ \E p \in 0..(Len(pairs) - 1) :
                            /\ retval_list' = [retval_list EXCEPT ![i] =
                                    MultiplyInsert(trunc, f, m_v1, m_v2, rh.h,
                                                   SubSeq(pairs, 1, p))]
                            /\ n_mult' = n_mult + p
                       /\ exceptions' = Append(exceptions, Thrown("error", i))
                       /\ faults' = faults + inj + 1
    /\ wpc' = [wpc EXCEPT ![i] = "done"]
    /\ UNCHANGED << kind, m_s1, m_s2, m_v1, m_v2, trunc, pc, n_threads,
                    functor_list, retval, retval_sym, final_estimate, idx,
                    e_vector, new_sizes, mw, touched, outcome, cfg_n_threads,
                    main_thread, handled, round, first_result,
                    merge_input, bm, fault_budget, th, hset, sync, est, fi >>

\* the join without the re-throw: the exceptions of the workers are lost
JoinPopulate_no_rethrow ==
    /\ pc = "join_populate"
    /\ AllDone
    /\ pc' = "estimate"
    /\ UNCHANGED << outcome, retval_list, functor_list >>
    /\ UNCHANGED << kind, m_s1, m_s2, m_v1, m_v2, trunc, n_threads, wpc, exceptions,
                    retval, retval_sym, final_estimate, idx, e_vector, new_sizes,
                    mw, touched, cfg_n_threads, main_thread, handled, n_mult,
                    n_est, faults, round, first_result, merge_input, bm, fault_budget, th, hset, sync, est, fi >>

\* the join that re-throws the last exception pushed
JoinPopulate_rethrows_last ==
    /\ pc = "join_populate"
    /\ AllDone
    /\ IF exceptions # <<>>
       THEN /\ outcome' = exceptions[Len(exceptions)]
            /\ pc' = "done"
            /\ retval_list' = <<>>
            /\ functor_list' = <<>>
       ELSE /\ pc' = "estimate"
            /\ UNCHANGED << outcome, retval_list, functor_list >>
    /\ UNCHANGED << kind, m_s1, m_s2, m_v1, m_v2, trunc, n_threads, wpc, exceptions,
                    retval, retval_sym, final_estimate, idx, e_vector, new_sizes,
                    mw, touched, cfg_n_threads, main_thread, handled, n_mult,
                    n_est, faults, round, first_result, merge_input, bm,
                    fault_budget, th, hset, sync, est, fi >>

\* tg.join_all() and the re-throw of the first exception
JoinPopulate ==
    /\ pc = "join_populate"
    /\ AllDone
    /\ IF exceptions # <<>>
       THEN /\ outcome' = exceptions[1]
            /\ pc' = "done"
            /\ retval_list' = <<>>
            /\ functor_list' = <<>>
       ELSE /\ pc' = "estimate"
            /\ UNCHANGED << outcome, retval_list, functor_list >>
    /\ UNCHANGED << kind, m_s1, m_s2, m_v1, m_v2, trunc, n_threads, wpc, exceptions,
                    retval, retval_sym, final_estimate, idx, e_vector, new_sizes,
                    mw, touched, cfg_n_threads, main_thread, handled, n_mult,
                    n_est, faults, round, first_result,
                    merge_input, bm, fault_budget, th, hset, sync, est, fi >>

\* the final estimate with the series taken as retval left in retval_list
FinalEstimate_keeps_source ==
    /\ pc = "estimate"
    /\ LET f  == Functor(0, Len(m_v1), Len(m_v2))
           v1 == sort_for_skip1(trunc, f, m_v1)
           v2 == sort_for_skip2(trunc, f, m_v2)
       IN  /\ m_v1' = v1
           /\ m_v2' = v2
           /\ \E e \in estimate_final_series_size(trunc, f, v1, v2)
                        \cup (IF faults < fault_budget THEN {EstimateError("overflow_error")} ELSE {}) :
                IF IsError(e)
                THEN /\ outcome' = Thrown(e.err, 0)
                     /\ pc' = "done"
                     /\ retval_list' = <<>>
                     /\ functor_list' = <<>>
                     /\ faults' = faults + (IF e.err = "overflow_error" THEN 1 ELSE 0)
                     /\ UNCHANGED << retval, retval_sym, final_estimate >>
                ELSE LET fe == IF e.val = 0 THEN 1 ELSE e.val
                         cand == {i \in 1..Len(retval_list) :
                                    bucket_count(retval_list[i]) * max_load_factor >= fe}
                         it == CHOOSE i \in cand : \A j \in cand : i <= j
                     IN  /\ final_estimate' = fe
                         /\ retval_sym' = m_s1.sym
                         /\ IF cand # {}
                            THEN /\ retval' = retval_list[it]
                                 /\ retval_list' = retval_list
                            ELSE /\ retval' = rehash(EmptySet, fe)
                                 /\ UNCHANGED retval_list
                         /\ pc' = "final_merge"
                         /\ UNCHANGED << outcome, functor_list, faults >>
    /\ n_est' = n_est + 1
    /\ UNCHANGED << kind, m_s1, m_s2, trunc, n_threads, wpc, exceptions, idx,
                    e_vector, new_sizes, mw, touched, cfg_n_threads, main_thread,
                    handled, n_mult, round, first_result,
                    merge_input, bm, fault_budget, th, hset, sync, est, fi >>

\* the final estimate and the choice of the series that receives the merge
FinalEstimate ==
    /\ pc = "estimate"
    /\ LET f  == Functor(0, Len(m_v1), Len(m_v2))
           v1 == sort_for_skip1(trunc, f, m_v1)
           v2 == sort_for_skip2(trunc, f, m_v2)
       IN  /\ m_v1' = v1
           /\ m_v2' = v2
           /\ \E e \in estimate_final_series_size(trunc, f, v1, v2)
                        \cup (IF faults < fault_budget THEN {EstimateError("overflow_error")} ELSE {}) :
                IF IsError(e)
                THEN /\ outcome' = Thrown(e.err, 0)
                     /\ pc' = "done"
                     /\ retval_list' = <<>>
                     /\ functor_list' = <<>>
                     /\ faults' = faults + (IF e.err = "overflow_error" THEN 1 ELSE 0)
                     /\ UNCHANGED << retval, retval_sym, final_estimate >>
                ELSE LET fe == IF e.val = 0 THEN 1 ELSE e.val
                         cand == {i \in 1..Len(retval_list) :
                                    bucket_count(retval_list[i]) * max_load_factor >= fe}
                         it == CHOOSE i \in cand : \A j \in cand : i <= j
                     IN  /\ final_estimate' = fe
                         /\ retval_sym' = m_s1.sym
                         /\ IF cand # {}
                            THEN /\ retval' = retval_list[it]
                                 /\ retval_list' = RemoveAt(retval_list, it)
                            ELSE /\ retval' = rehash(EmptySet, fe)
                                 /\ UNCHANGED retval_list
                         /\ pc' = "final_merge"
                         /\ UNCHANGED << outcome, functor_list, faults >>
    /\ n_est' = n_est + 1
    /\ UNCHANGED << kind, m_s1, m_s2, trunc, n_threads, wpc, exceptions, idx,
                    e_vector, new_sizes, mw, touched, cfg_n_threads, main_thread,
                    handled, n_mult, round, first_result,
                    merge_input, bm, fault_budget, th, hset, sync, est, fi >>

(***************************************************************************)
(* final_merge(retval, retval_list, n_threads), and the end of execute().  *)
(***************************************************************************)
\* an element of idx: the bucket in retval and the iterator (the series
\* src of retval_list and the position pos of the term in it)
IdxUnset == [bucket |-> 0, src |-> 0, pos |-> 0]
IdxEntry(r, k) ==
    [bucket |-> _bucket(retval, Items(retval_list[r])[k]), src |-> r, pos |-> k]

\* *term_it
TermAt(e) == Items(retval_list[e.src])[e.pos]

\* the offset that advances by one for each series
RECURSIVE OffsetOf_by_series(_)
OffsetOf_by_series(r) == IF r <= 1 THEN 0 ELSE OffsetOf_by_series(r - 1) + 1

\* the sum of the sizes of the series before position r in retval_list
RECURSIVE OffsetOf(_)
OffsetOf(r) == IF r <= 1 THEN 0 ELSE OffsetOf(r - 1) + retval_list[r - 1].n

\* the error path of execute(): cleanup(), retval cleared, throw
MergeFailed_keeps_sources ==
    /\ outcome' = e_vector[1]
    /\ retval_list' = retval_list
    /\ retval' = clear(retval)
    /\ pc' = "done"

MergeFailed ==
    /\ outcome' = e_vector[1]
    /\ retval_list' = [i \in 1..Len(retval_list) |-> clear(retval_list[i])]
    /\ retval' = clear(retval)
    /\ pc' = "done"

\* the first pass: idx is allocated and one thread per series is created
MergeBegin ==
    /\ pc = "final_merge"
    /\ merge_input' = [retval |-> retval, retval_list |-> retval_list]
    /\ idx' = [n \in 1..OffsetOf(Len(retval_list) + 1) |-> IdxUnset]
    /\ e_vector' = <<>>
    /\ mw' = [r \in 1..Len(retval_list) |-> [i |-> OffsetOf(r)]]
    /\ wpc' = Running(Len(retval_list))
    /\ pc' = "join_index"
    /\ UNCHANGED << kind, m_s1, m_s2, m_v1, m_v2, trunc, n_threads, functor_list,
                    retval_list, exceptions, retval, retval_sym, final_estimate,
                    new_sizes, touched, outcome, cfg_n_threads, main_thread,
                    handled, n_mult, n_est, faults, round, first_result,
                    bm, fault_budget, th, hset, sync, est, fi >>

\* the thread of the series r of retval_list: it fills its part of idx
IndexWorker(r) ==
    /\ pc = "join_index"
    /\ wpc[r] = "run"
    /\ LET cnt == Len(Items(retval_list[r]))
           Fill(q) == [n \in 1..Len(idx) |->
                         IF n > mw[r].i /\ n <= mw[r].i + q
                         THEN IdxEntry(r, n - mw[r].i) ELSE idx[n]]
       IN  \/ /\ idx' = Fill(cnt)
              /\ UNCHANGED << e_vector, faults >>
           \/ /\ faults < fault_budget
              /\ \E q \in 0..(cnt - 1) : idx' = Fill(q)
              /\ e_vector' = Append(e_vector, Thrown("error", r))
              /\ faults' = faults + 1
    /\ wpc' = [wpc EXCEPT ![r] = "done"]
    /\ UNCHANGED << kind, m_s1, m_s2, m_v1, m_v2, trunc, pc, n_threads,
                    functor_list, retval_list, exceptions, retval, retval_sym,
                    final_estimate, new_sizes, mw, touched, outcome,
                    cfg_n_threads, main_thread, handled, n_mult, n_est, round,
                    first_result,
                    merge_input, bm, fault_budget, th, hset, sync, est, fi >>

\* the bucket indices allowed to thread n (0-based) of the second pass
RangeStart(bc, nt, n) == n * (bc \div nt)
\* the end of the range without the special case of the last thread
RangeEnd_no_last(bc, nt, n) == (n + 1) * (bc \div nt)
RangeEnd(bc, nt, n) == IF n = nt - 1 THEN bc ELSE (n + 1) * (bc \div nt)

\* tg1.join_all(), then the threads of the second pass are created
JoinIndex ==
    /\ pc = "join_index"
    /\ AllDone
    /\ IF e_vector # <<>>
       THEN /\ MergeFailed
            /\ UNCHANGED << e_vector, new_sizes, mw, wpc, touched, handled >>
       ELSE /\ e_vector' = <<>>
            /\ new_sizes' = <<>>
            /\ mw' = [n \in 1..n_threads |->
                        [start |-> RangeStart(bucket_count(retval), n_threads, n - 1),
                         end |-> RangeEnd(bucket_count(retval), n_threads, n - 1),
                         i |-> 0, count_plus |-> 0, count_minus |-> 0]]
            /\ wpc' = Running(n_threads)
            /\ touched' = [n \in 1..n_threads |-> {}]
            /\ handled' = [j \in 1..Len(idx) |-> {}]
            /\ pc' = "join_merge"
            /\ UNCHANGED << outcome, retval_list, retval >>
    /\ UNCHANGED << kind, m_s1, m_s2, m_v1, m_v2, trunc, n_threads, functor_list,
                    exceptions, retval_sym, final_estimate, idx, cfg_n_threads,
                    main_thread, n_mult, n_est, faults, round, first_result,
                    merge_input, bm, fault_budget, th, hset, sync, est, fi >>

\* the test of the range with the start excluded
InRange_open(k, j) == idx[j].bucket > mw[k].start /\ idx[j].bucket < mw[k].end

\* whether thread k of the second pass takes the entry at position j of idx
InRange(k, j) == idx[j].bucket >= mw[k].start /\ idx[j].bucket < mw[k].end

\* cleanup() that never erases
cleanup_erases_never(h, bucket_idx, it) == FALSE

\* cleanup(): whether the term at position it of the bucket is erased
cleanup_erases(h, bucket_idx, it) == is_ignorable(h.b[bucket_idx + 1][it])

\* thread k of the second pass: the loop runs up to and including the next
\* entry of its range (the entries of the other ranges are only read), or,
\* with none left, to the end, where the size delta is pushed
MergeWorker(k) ==
    /\ pc = "join_merge"
    /\ wpc[k] = "run"
    /\ LET mine == {j \in (mw[k].i + 1)..Len(idx) : InRange(k, j)}
       IN  IF mine = {}
           THEN /\ new_sizes' = Append(new_sizes, mw[k].count_plus - mw[k].count_minus)
                /\ wpc' = [wpc EXCEPT ![k] = "done"]
                /\ mw' = [mw EXCEPT ![k].i = Len(idx)]
                /\ UNCHANGED << retval, e_vector, touched, handled, faults >>
           ELSE LET j == CHOOSE x \in mine : \A y \in mine : x <= y
                    bucket_idx == idx[j].bucket
                    t == TermAt(idx[j])
                    it == _find(retval, t, bucket_idx)
                    upd == insertion_cf_arithmetics(retval, bucket_idx, it, t)
                    gone == cleanup_erases(upd, bucket_idx, it)
                IN  /\ touched' = [touched EXCEPT ![k] = @ \cup {bucket_idx}]
                    /\ handled' = [handled EXCEPT ![j] = @ \cup {k}]
                    /\ IF it = 0
                       THEN /\ retval' = _unique_insert(retval, t, bucket_idx)
                            /\ mw' = [mw EXCEPT ![k].i = j, ![k].count_plus = @ + 1]
                            /\ UNCHANGED << e_vector, wpc, faults >>
                       ELSE \/ /\ retval' = IF gone THEN _erase(upd, bucket_idx, it) ELSE upd
                               /\ mw' = [mw EXCEPT ![k].i = j,
                                            ![k].count_minus = @ + (IF gone THEN 1 ELSE 0)]
                               /\ UNCHANGED << e_vector, wpc, faults >>
                            \/ /\ faults < fault_budget
                               /\ faults' = faults + 1
                               /\ e_vector' = Append(e_vector, Thrown("error", k))
                               /\ wpc' = [wpc EXCEPT ![k] = "done"]
                               /\ mw' = [mw EXCEPT ![k].i = j]
                               /\ UNCHANGED retval
                    /\ UNCHANGED new_sizes
    /\ UNCHANGED << kind, m_s1, m_s2, m_v1, m_v2, trunc, pc, n_threads,
                    functor_list, retval_list, exceptions, retval_sym,
                    final_estimate, idx, outcome, cfg_n_threads, main_thread,
                    n_mult, n_est, round, first_result,
                    merge_input, bm, fault_budget, th, hset, sync, est, fi >>

\* the test of the load that never finds the series overloaded
Overloaded_never(h) == FALSE

\* hash_set::load_factor() > max_load_factor()
Overloaded(h) == h.n > bucket_count(h) * max_load_factor

\* the size of the merged series without the deltas of the workers
merged_size_no_deltas(h, sizes) == h.n

\* the size of the merged series with the size of the target counted twice
merged_size_twice(h, sizes) == SumSeq(sizes) + h.n + h.n

\* the size of retval after the merge: the deltas of the workers are added
\* to the size retval had
merged_size(h, sizes) == SumSeq(sizes) + h.n

\* tg2.join_all(), the update of the size, the rehash, then the end of
\* execute(): cleanup() and the return of retval
JoinMerge ==
    /\ pc = "join_merge"
    /\ AllDone
    /\ IF e_vector # <<>>
       THEN MergeFailed
       ELSE LET h1 == _update_size(retval, merged_size(retval, new_sizes))
            IN  /\ retval' = IF Overloaded(h1) THEN rehash(h1, h1.n) ELSE h1
                /\ retval_list' = [i \in 1..Len(retval_list) |-> clear(retval_list[i])]
                /\ outcome' = Returned
                /\ pc' = "done"
    /\ UNCHANGED << kind, m_s1, m_s2, m_v1, m_v2, trunc, n_threads, functor_list,
                    wpc, exceptions, retval_sym, final_estimate, idx, e_vector,
                    new_sizes, mw, touched, cfg_n_threads, main_thread, handled,
                    n_mult, n_est, faults, round, first_result,
                    merge_input, bm, fault_budget, th, hset, sync, est, fi >>

(***************************************************************************)
(* The multiplication of two series.                                       *)
(***************************************************************************)
Next ==
    \/ Construct
    \/ Call
    \/ Single
    \/ Spawn
    \/ \E i \in DOMAIN wpc : PopulateWorker(i)
    \/ JoinPopulate
    \/ FinalEstimate
    \/ MergeBegin
    \/ \E r \in DOMAIN wpc : IndexWorker(r)
    \/ JoinIndex
    \/ \E k \in DOMAIN wpc : MergeWorker(k)
    \/ JoinMerge

Spec == Init /\ [][Next]_vars

(***************************************************************************)
(* final_merge on its own: any series that receives the merge, with at     *)
(* least one bucket, and any per-thread series, at most one per thread.    *)
(***************************************************************************)
MaxMergeKey == 2
MaxMergeTerms == 2

\* the series made by inserting the terms of a sequence, rehashed to nb buckets
RECURSIVE InsertAll(_, _)
InsertAll(h, ts) == IF ts = <<>> THEN h ELSE InsertAll(insert(h, Head(ts)), Tail(ts))

\* sequences of at most n terms with increasing keys
RECURSIVE TermSeqs(_, _)
TermSeqs(n, lo) ==
    IF n = 0 \/ lo > MaxMergeKey THEN {<<>>}
    ELSE {<<>>} \cup
         {<< Term(c, k) >> \o r : <<c, k, r>> \in
             UNION {{<<c, k, r>> : c \in {-1, 1}, r \in TermSeqs(n - 1, k + 1)} :
                        k \in lo..MaxMergeKey}}

Accumulators(n) == {InsertAll(EmptySet, ts) : ts \in TermSeqs(n, 0)}

MergeTargets ==
    {rehash(h, nb) : <<h, nb>> \in Accumulators(1) \X {1, 2, 4}}

InitMerge ==
    /\ kind = "poly"
    /\ m_s1 = Series("x", <<>>) /\ m_s2 = Series("x", <<>>)
    /\ m_v1 = <<>> /\ m_v2 = <<>>
    /\ trunc = NoTruncator
    /\ pc = "final_merge"
    /\ n_threads \in 2..MaxThreads
    /\ functor_list = <<>>
    /\ retval \in MergeTargets
    /\ retval_list \in {<< a >> : a \in Accumulators(MaxMergeTerms)}
                     \cup (Accumulators(MaxMergeTerms) \X Accumulators(1))
    /\ wpc = <<>> /\ exceptions = <<>>
    /\ retval_sym = "x"
    /\ final_estimate = 1
    /\ idx = <<>> /\ e_vector = <<>> /\ new_sizes = <<>> /\ mw = <<>>
    /\ touched = <<>> /\ handled = <<>>
    /\ outcome = NoOutcome
    /\ cfg_n_threads = n_threads /\ main_thread = TRUE
    /\ n_mult = 0 /\ n_est = 0 /\ faults = 0
    /\ round = 1 /\ first_result = NoResult
    /\ merge_input = NoMerge
    /\ bm = NoRun
    /\ fault_budget = MaxFaults
    /\ th = NoHeuristic
    /\ hset = NoSet
    /\ fi = NoInsert
    /\ est = NoEst
    /\ sync = NoSync

NextMerge ==
    \/ MergeBegin
    \/ \E r \in DOMAIN wpc : IndexWorker(r)
    \/ JoinIndex
    \/ \E k \in DOMAIN wpc : MergeWorker(k)
    \/ JoinMerge

SpecMerge == InitMerge /\ [][NextMerge]_vars

(***************************************************************************)
(* blocked_multiplication on its own: any two sizes and a table of skip.   *)
(***************************************************************************)
MaxBlocked1 == 3
MaxBlocked2 == 5

\* a row of skip: false up to a threshold and true from it on, or true at
\* one index only
SkipRows(size2) ==
    {[j \in 0..(size2 - 1) |-> j >= t] : t \in 0..size2}
    \cup {[j \in 0..(size2 - 1) |-> j = t] : t \in 0..(size2 - 1)}

SkipTables(size1, size2) ==
    {[q \in (0..(size1 - 1)) \X (0..(size2 - 1)) |-> rows[q[1]][q[2]]] :
        rows \in [0..(size1 - 1) -> SkipRows(size2)]}

InitBlocked ==
    /\ kind = "poly"
    /\ m_s1 = Series("x", <<>>) /\ m_s2 = Series("x", <<>>)
    /\ pc = "blocked"
    /\ round = 1 /\ first_result = NoResult
    /\ fault_budget = MaxFaults
    /\ th = NoHeuristic
    /\ hset = NoSet
    /\ fi = NoInsert
    /\ est = NoEst
    /\ sync = NoSync
    /\ Blank
    /\ \E size1 \in 0..MaxBlocked1, size2 \in 0..MaxBlocked2 :
         \E sk \in SkipTables(size1, size2) :
            bm = [size1 |-> size1, size2 |-> size2, sk |-> sk, st |-> "ready",
                  pairs |-> <<>>]

RunBlocked ==
    /\ pc = "blocked"
    /\ bm.st = "ready"
    /\ bm' = [bm EXCEPT !.pairs = blocked_multiplication(bm.sk, bm.size1, bm.size2),
                        !.st = "done"]
    /\ UNCHANGED << kind, m_s1, m_s2, m_v1, m_v2, trunc, pc, n_threads,
                    functor_list, retval_list, wpc, exceptions, retval,
                    retval_sym, final_estimate, idx, e_vector, new_sizes, mw,
                    touched, outcome, cfg_n_threads, main_thread, handled,
                    n_mult, n_est, faults, round, first_result, merge_input,
                    fault_budget, th, hset, sync, est, fi >>

SpecBlocked == InitBlocked /\ [][RunBlocked]_vars

(***************************************************************************)
(* blocked_multiplication over several tiles in each dimension: any two    *)
(* sizes, and a skip that starts at the same index on every row (at size2  *)
(* for no skip at all).                                                    *)
(***************************************************************************)
MaxTiled == 7

InitTiled ==
    /\ kind = "poly"
    /\ m_s1 = Series("x", <<>>) /\ m_s2 = Series("x", <<>>)
    /\ pc = "blocked"
    /\ round = 1 /\ first_result = NoResult
    /\ fault_budget = MaxFaults
    /\ th = NoHeuristic
    /\ hset = NoSet
    /\ fi = NoInsert
    /\ est = NoEst
    /\ sync = NoSync
    /\ Blank
    /\ \E size1 \in 0..MaxTiled, size2 \in 0..MaxTiled :
         \E t \in 0..size2 :
            bm = [size1 |-> size1, size2 |-> size2,
                  sk |-> [q \in (0..(size1 - 1)) \X (0..(size2 - 1)) |-> q[2] >= t],
                  st |-> "ready", pairs |-> <<>>]

SpecTiled == InitTiled /\ [][RunBlocked]_vars

(***************************************************************************)
(* The threads of execute() and of final_merge and their mutexes, on their *)
(* own.  A thread is [at, left]: at "work" it has left steps of its loop   *)
(* to take, any of which may throw; at "catch" it waits for the mutex of   *)
(* the vector of exceptions, at "locked_e" it holds it; at "lock_m" it     *)
(* waits for the mutex of new_sizes, at "locked_m" it holds it; at "end"   *)
(* it has returned.  A mutex is the thread that holds it, 0 for none.      *)
(***************************************************************************)
MaxWork == 2

SyncThread(n) == [at |-> "work", left |-> n]

\* tg.create_thread for every thread of a phase
StartPhase(phase, lens) ==
    [sync EXCEPT !.phase = phase,
                 !.w = [k \in 1..Len(lens) |-> SyncThread(lens[k])],
                 !.mtx_e = 0, !.mtx_m = 0, !.exc = 0, !.sizes = 0]

InitLocks ==
    /\ kind = "poly"
    /\ m_s1 = Series("x", <<>>) /\ m_s2 = Series("x", <<>>)
    /\ pc = "locks"
    /\ round = 1 /\ first_result = NoResult
    /\ bm = NoRun
    /\ fault_budget = MaxFaults
    /\ th = NoHeuristic
    /\ hset = NoSet
    /\ fi = NoInsert
    /\ est = NoEst
    /\ Blank
    /\ \E n \in 2..MaxThreads : \E lens \in [1..n -> 0..MaxWork] :
            sync = [phase |-> "populate",
                    w |-> [k \in 1..n |-> SyncThread(lens[k])],
                    mtx_e |-> 0, mtx_m |-> 0, exc |-> 0, sizes |-> 0,
                    outcome |-> "none"]

SyncStep(next) ==
    /\ pc = "locks"
    /\ sync' = next
    /\ UNCHANGED << kind, m_s1, m_s2, m_v1, m_v2, trunc, pc, n_threads,
                    functor_list, retval_list, wpc, exceptions, retval,
                    retval_sym, final_estimate, idx, e_vector, new_sizes, mw,
                    touched, outcome, cfg_n_threads, main_thread, handled,
                    n_mult, n_est, faults, round, first_result, merge_input,
                    bm, fault_budget, th, hset, est, fi >>

\* one step of the loop of thread k, which may throw
LoopStep(k) ==
    /\ sync.w[k].at = "work" /\ sync.w[k].left > 0
    /\ \/ SyncStep([sync EXCEPT !.w[k].left = @ - 1])
       \/ SyncStep([sync EXCEPT !.w[k].at = "catch"])

\* the end of the loop: the thread returns, or goes on to store its size
LoopEnd(k) ==
    /\ sync.w[k].at = "work" /\ sync.w[k].left = 0
    /\ SyncStep([sync EXCEPT !.w[k].at =
                    IF sync.phase = "merge" THEN "lock_m" ELSE "end"])

\* lock_guard<mutex>::type lock(m)
LockM(k) ==
    /\ sync.w[k].at = "lock_m" /\ sync.mtx_m = 0
    /\ SyncStep([sync EXCEPT !.w[k].at = "locked_m", !.mtx_m = k])

\* the push that throws with the mutex of new_sizes kept locked
PushSize_keeps_mutex(k) ==
    /\ sync.w[k].at = "locked_m"
    /\ \/ SyncStep([sync EXCEPT !.w[k].at = "end", !.mtx_m = 0, !.sizes = @ + 1])
       \/ SyncStep([sync EXCEPT !.w[k].at = "catch"])

\* new_sizes.push_back(...): the guard unlocks at the end of the scope,
\* also when the push throws
PushSize(k) ==
    /\ sync.w[k].at = "locked_m"
    /\ \/ SyncStep([sync EXCEPT !.w[k].at = "end", !.mtx_m = 0, !.sizes = @ + 1])
       \/ SyncStep([sync EXCEPT !.w[k].at = "catch", !.mtx_m = 0])

\* catch (...) { lock_guard<mutex>::type lock(e_mutex)
LockE(k) ==
    /\ sync.w[k].at = "catch" /\ sync.mtx_e = 0
    /\ SyncStep([sync EXCEPT !.w[k].at = "locked_e", !.mtx_e = k])

\* e_vector.push_back(current_exception()); }
PushException(k) ==
    /\ sync.w[k].at = "locked_e"
    /\ SyncStep([sync EXCEPT !.w[k].at = "end", !.mtx_e = 0, !.exc = @ + 1])

ThreadStep(k) ==
    /\ pc = "locks"
    /\ k \in DOMAIN sync.w
    /\ \/ LoopStep(k)
       \/ LoopEnd(k)
       \/ LockM(k)
       \/ PushSize(k)
       \/ LockE(k)
       \/ PushException(k)

\* join_all() and what follows: the re-throw of the first exception, or
\* the next group of threads (the final estimate, which may throw, comes
\* before the first pass of final_merge), or the return
Join ==
    /\ pc = "locks"
    /\ sync.phase \in {"populate", "index", "merge"}
    /\ \A k \in DOMAIN sync.w : sync.w[k].at = "end"
    /\ IF sync.exc > 0
       THEN SyncStep([sync EXCEPT !.phase = "done", !.outcome = "thrown"])
       ELSE \/ /\ sync.phase = "populate"
               /\ \/ SyncStep([sync EXCEPT !.phase = "done", !.outcome = "thrown"])
                  \/ \E n \in {Len(sync.w) - 1, Len(sync.w)} :
                       \E lens \in [1..n -> 0..MaxWork] :
                          SyncStep(StartPhase("index", lens))
            \/ /\ sync.phase = "index"
               /\ \E n \in {Len(sync.w), Len(sync.w) + 1} :
                    /\ n >= 2 /\ n <= MaxThreads
                    /\ \E lens \in [1..n -> 0..MaxWork] :
                          SyncStep(StartPhase("merge", lens))
            \/ /\ sync.phase = "merge"
               /\ SyncStep([sync EXCEPT !.phase = "done", !.outcome = "returned"])

NextLocks ==
    \/ \E k \in 1..MaxThreads : ThreadStep(k)
    \/ Join

\* every thread that can take a step takes one, and so does the caller
FairLocks ==
    /\ \A k \in 1..MaxThreads : WF_vars(ThreadStep(k))
    /\ WF_vars(Join)

SpecLocks == InitLocks /\ [][NextLocks]_vars /\ FairLocks

(***************************************************************************)
(* rehasher() and estimate_final_series_size() on their own, one trial of  *)
(* the estimator per step, with the series r they are given.  The operands *)
(* are those for which execute() can reach the estimator: the sweep of a   *)
(* trial is at least one product long.                                     *)
(***************************************************************************)
MaxEst1 == 2
MaxEst2 == 2
\* the size of a second operand long enough for the sweep to wrap around
\* the first operand
WideTerms == 18

EstCoeffs == {1, 2}

\* the series of n terms of coefficient c, with keys n-1, ..., 0
UniformSeries(n, c) == [i \in 1..n |-> Term(c, n - i)]

\* what std::random_shuffle can leave in an index vector of n elements: any
\* order for a short vector, the two extreme orders for a long one
Shuffles(n) ==
    LET zero(p) == [i \in 1..n |-> p[i] - 1]
    IN  IF n <= MaxEst1
        THEN {zero(p) : p \in Perms(n)}
        ELSE {[i \in 1..n |-> i - 1], [i \in 1..n |-> n - i]}

\* the functor of the run
EstFunctor == Functor(0, size(m_s1), size(m_s2))

\* whether the estimator is run: always for the final estimate of execute(),
\* according to the test of rehasher() otherwise
EstimatorRuns ==
    est.via = "final" \/ RehasherEstimates(size(m_s1), size(m_s2))

InitEstimate ==
    /\ kind \in {"poly", "poisson"}
    /\ \E n1 \in 1..MaxEst1, n2 \in (1..MaxEst2) \cup {WideTerms} :
       \E c \in EstCoeffs, tr \in Truncators :
       \E via \in {"rehasher", "final"} :
            /\ MaxM(n1, n2) >= 1 \/ (via = "rehasher" /\ ~RehasherEstimates(n1, n2))
            /\ via = "final" => n1 >= 2
            /\ m_s1 = Series("x", UniformSeries(n1, c))
            /\ m_s2 = Series("x", UniformSeries(n2, c))
            /\ est = [NoEst EXCEPT
                        !.via = via, !.st = "called", !.tr = tr,
                        !.v1 = sort_for_skip1(tr, Functor(0, n1, n2), [i \in 1..n1 |-> i]),
                        !.v2 = sort_for_skip2(tr, Functor(0, n1, n2), [i \in 1..n2 |-> i])]
    /\ pc = "estimator"
    /\ round = 1 /\ first_result = NoResult
    /\ bm = NoRun
    /\ fault_budget = MaxFaults
    /\ th = NoHeuristic
    /\ hset = NoSet
    /\ fi = NoInsert
    /\ sync = NoSync
    /\ Blank

EstStep(next) ==
    /\ pc = "estimator"
    /\ est' = next
    /\ UNCHANGED << kind, m_s1, m_s2, m_v1, m_v2, trunc, pc, n_threads,
                    functor_list, retval_list, wpc, exceptions, retval,
                    retval_sym, final_estimate, idx, e_vector, new_sizes, mw,
                    touched, outcome, cfg_n_threads, main_thread, handled,
                    n_mult, n_est, faults, round, first_result, merge_input,
                    bm, fault_budget, th, hset, sync, fi >>

\* one trial of the estimator: the shuffles, the sweep, the sums and the
\* reset of the series; or an exception thrown in the middle of the sweep,
\* which leaves in the series the terms inserted so far
Trial ==
    /\ pc = "estimator"
    /\ est.st = "called" /\ EstimatorRuns /\ est.n < ntrials
    /\ \E p1 \in Shuffles(size(m_s1)), p2 \in Shuffles(size(m_s2)) :
        LET e == Sweep(est.tr, EstFunctor, est.v1, est.v2,
                       MaxM(size(m_s1), size(m_s2)), p1,
                       [count |-> 0, count_filtered |-> 0, it1 |-> 1, it2 |-> 1,
                        v2 |-> p2, h |-> est.r, pairs |-> << >>,
                        grown |-> << >>, broke |-> FALSE])
        IN  \/ EstStep([est EXCEPT
                            !.n = @ + 1,
                            !.total = @ + e.count,
                            !.filtered = @ + e.count_filtered,
                            !.r = clear(e.h),
                            !.last = [pairs |-> e.pairs, grown |-> e.grown,
                                      broke |-> e.broke, count |-> e.count,
                                      count_filtered |-> e.count_filtered]])
            \/ EstStep([est EXCEPT
                            !.st = "thrown",
                            !.r = e.h,
                            !.result = EstimateError("overflow_error")])

\* the final formula of the estimator, after the trials
Formula ==
    /\ pc = "estimator"
    /\ est.st = "called" /\ EstimatorRuns /\ est.n = ntrials
    /\ LET e == EstimateOf(est.total, est.filtered)
       IN  EstStep([est EXCEPT !.st = IF IsError(e) THEN "thrown" ELSE "estimated",
                               !.result = e])

\* rehasher() returns: the estimator was not run, or it has ended
RehasherReturns ==
    /\ pc = "estimator"
    /\ est.via = "rehasher"
    /\ \/ est.st = "called" /\ ~EstimatorRuns
       \/ est.st \in {"estimated", "thrown"}
    /\ LET out == rehasher(est.r, size(m_s1), size(m_s2), est.result)
       IN  EstStep([est EXCEPT !.st = "returned", !.r = out.h,
                               !.first = out.first,
                               !.result = Estimate(out.second)])

NextEstimate ==
    \/ Trial
    \/ Formula
    \/ RehasherReturns

SpecEstimate == InitEstimate /\ [][NextEstimate]_vars

(***************************************************************************)
(* A functor on its own: operator()(i, j) followed by insert<CheckFilter>() *)
(* for any pair of indices and either value of the flag, a few times over. *)
(***************************************************************************)
MaxInserts == 2
MaxInsertTerms == 2

InitInsert ==
    /\ kind \in {"poly", "poisson"}
    /\ m_s1 \in {Series("x", t) : t \in Operands(MaxInsertTerms, EstCoeffs) \ {<< >>}}
    /\ m_s2 \in {Series("x", t) : t \in Operands(MaxInsertTerms, EstCoeffs) \ {<< >>}}
    /\ \E tr \in Truncators :
        LET f == Functor(0, size(m_s1), size(m_s2))
        IN  fi = [NoInsert EXCEPT
                    !.st = "built", !.tr = tr,
                    !.v1 = sort_for_skip1(tr, f, [i \in 1..size(m_s1) |-> i]),
                    !.v2 = sort_for_skip2(tr, f, [i \in 1..size(m_s2) |-> i])]
    /\ pc = "insert"
    /\ round = 1 /\ first_result = NoResult
    /\ bm = NoRun
    /\ fault_budget = MaxFaults
    /\ th = NoHeuristic
    /\ hset = NoSet
    /\ est = NoEst
    /\ sync = NoSync
    /\ Blank

\* f(i, j); f.insert<CheckFilter>();
MultiplyAndInsert ==
    /\ pc = "insert"
    /\ fi.n < MaxInserts
    /\ \E i \in 0..(size(m_s1) - 1), j \in 0..(size(m_s2) - 1), CheckFilter \in BOOLEAN :
        LET f   == Functor(0, size(m_s1), size(m_s2))
            tmp == functor_call(f, fi.v1, fi.v2, i, j)
        IN  fi' = [fi EXCEPT
                    !.st = "inserted",
                    !.before = fi.h,
                    !.tmp = tmp,
                    !.CheckFilter = CheckFilter,
                    !.h = functor_insert(fi.tr, CheckFilter, fi.h, tmp),
                    !.n = @ + 1]
    /\ UNCHANGED << kind, m_s1, m_s2, m_v1, m_v2, trunc, pc, n_threads,
                    functor_list, retval_list, wpc, exceptions, retval,
                    retval_sym, final_estimate, idx, e_vector, new_sizes, mw,
                    touched, outcome, cfg_n_threads, main_thread, handled,
                    n_mult, n_est, faults, round, first_result, merge_input,
                    bm, fault_budget, th, hset, sync, est >>

NextInsert == MultiplyAndInsert

SpecInsert == InitInsert /\ [][NextInsert]_vars

(***************************************************************************)
(* Two multiplications, the second with the operands exchanged.            *)
(***************************************************************************)
Exchange ==
    /\ pc = "done"
    /\ round = 1
    /\ round' = 2
    /\ first_result' = [terms |-> TermsOf(retval), trunc |-> trunc,
                        cfg |-> cfg_n_threads, main |-> main_thread,
                        st |-> outcome.st]
    /\ m_s1' = m_s2
    /\ m_s2' = m_s1
    /\ pc' = "construct"
    /\ m_v1' = <<>> /\ m_v2' = <<>>
    /\ trunc' = NoTruncator
    /\ n_threads' = 0
    /\ functor_list' = <<>> /\ retval_list' = <<>>
    /\ wpc' = <<>>
    /\ exceptions' = <<>>
    /\ retval' = EmptySet /\ retval_sym' = NoSymbols
    /\ final_estimate' = 0
    /\ idx' = <<>> /\ e_vector' = <<>> /\ new_sizes' = <<>> /\ mw' = <<>>
    /\ touched' = <<>> /\ handled' = <<>>
    /\ outcome' = NoOutcome
    /\ cfg_n_threads' = 1 /\ main_thread' = TRUE
    /\ n_mult' = 0 /\ n_est' = 0
    /\ merge_input' = NoMerge
    /\ UNCHANGED << kind, faults, bm, fault_budget, th, hset, sync, est, fi >>

\* the first operand has at most MaxTerms2 terms, the second at most
\* MaxTermsWide terms of coefficient 1
MaxTermsWide == 4

InitTwice ==
    /\ kind \in {"poly", "poisson"}
    /\ m_s1 \in {Series("x", t) : t \in Operands(MaxTerms2, Coeffs2)}
    /\ m_s2 \in {Series(y, t) : <<y, t>> \in {"x", "y"} \X Operands(MaxTermsWide, {1})}
    /\ pc = "construct"
    /\ round = 1 /\ first_result = NoResult
    /\ bm = NoRun
    /\ fault_budget = MaxFaults
    /\ th = NoHeuristic
    /\ hset = NoSet
    /\ fi = NoInsert
    /\ est = NoEst
    /\ sync = NoSync
    /\ Blank

NextTwice == Next \/ Exchange

SpecTwice == InitTwice /\ [][NextTwice]_vars

(***************************************************************************)
(* The multiplication by the empty series and by the series of one term    *)
(* of coefficient 1 and key 0.                                             *)
(***************************************************************************)
UnitSeries == << Term(1, 0) >>

InitUnit ==
    /\ kind \in {"poly", "poisson"}
    /\ m_s1 \in {Series("x", t) : t \in Operands(MaxTermsWide, Coeffs1)}
    /\ m_s2 \in {Series("x", <<>>), Series("x", UnitSeries)}
    /\ pc = "construct"
    /\ round = 1 /\ first_result = NoResult
    /\ bm = NoRun
    /\ fault_budget = MaxFaults
    /\ th = NoHeuristic
    /\ hset = NoSet
    /\ fi = NoInsert
    /\ est = NoEst
    /\ sync = NoSync
    /\ Blank

SpecUnit == InitUnit /\ [][Next]_vars

(***************************************************************************)
(* The multiplication with several failures in one call: polynomials of    *)
(* coefficient 1 over the same symbols.                                    *)
(***************************************************************************)
MaxManyFaults == 3

InitFaults ==
    /\ kind = "poly"
    /\ m_s1 \in {Series("x", t) : t \in Operands(MaxTerms1, {1})}
    /\ m_s2 \in {Series("x", t) : t \in Operands(MaxTerms2, {1})}
    /\ pc = "construct"
    /\ round = 1 /\ first_result = NoResult
    /\ bm = NoRun
    /\ fault_budget = MaxManyFaults
    /\ th = NoHeuristic
    /\ hset = NoSet
    /\ fi = NoInsert
    /\ est = NoEst
    /\ sync = NoSync
    /\ Blank

SpecFaults == InitFaults /\ [][Next]_vars

(***************************************************************************)
(* The heuristics on their own, with the thresholds of the source: the     *)
(* number of threads, the blocks of the first operand and the decision of  *)
(* rehasher for the whole product.  The setting min_work_per_thread is an  *)
(* input no line of execute() or rehasher() reads.                         *)
(***************************************************************************)
MinWorkPerThread == 100000
MaxCfg == 4
MaxSmallSize == 6

\* the sizes of the operands: small ones, and ones around the thresholds
HeuristicSizes ==
    {q \in ((1..MaxSmallSize) \cup {33333, 33334})
           \X ((1..3) \cup {50000, 70000, 100000, 100001, 200000, 300000}) :
        q[1] <= MaxSmallSize \/ q[2] <= 3}

InitHeuristic ==
    /\ kind = "poly"
    /\ m_s1 = Series("x", <<>>) /\ m_s2 = Series("x", <<>>)
    /\ pc = "heuristic"
    /\ round = 1 /\ first_result = NoResult
    /\ bm = NoRun
    /\ fault_budget = MaxFaults
    /\ hset = NoSet
    /\ fi = NoInsert
    /\ est = NoEst
    /\ sync = NoSync
    /\ Blank
    /\ \E cfg \in 1..MaxCfg, setting \in {1, MinWorkPerThread}, q \in HeuristicSizes :
         th = [cfg |-> cfg, setting |-> setting, size1 |-> q[1], size2 |-> q[2],
               n_threads |-> 0, blocks |-> <<>>, estimates |-> FALSE, st |-> "ready"]

RunHeuristic ==
    /\ pc = "heuristic"
    /\ th.st = "ready"
    /\ LET n == ThreadsFor(MinWorkPerThread, th.cfg, th.size1, th.size2)
       IN  th' = [th EXCEPT !.n_threads = n,
                            !.blocks = [i \in 1..n |-> BlockTerms(th.size1, n, i - 1)],
                            !.estimates = EstimatesFor(MinWorkPerThread, th.size1, th.size2),
                            !.st = "done"]
    /\ UNCHANGED << kind, m_s1, m_s2, m_v1, m_v2, trunc, pc, n_threads,
                    functor_list, retval_list, wpc, exceptions, retval,
                    retval_sym, final_estimate, idx, e_vector, new_sizes, mw,
                    touched, outcome, cfg_n_threads, main_thread, handled,
                    n_mult, n_est, faults, round, first_result, merge_input,
                    bm, fault_budget, hset, sync, est, fi >>

SpecHeuristic == InitHeuristic /\ [][RunHeuristic]_vars

(***************************************************************************)
(* The hash set on its own: any sequence of at most MaxSetOps public       *)
(* operations on a set of keys 0 .. MaxSetKey, from the default-           *)
(* constructed set.  hset.keys is the set of keys the operations define,   *)
(* hset.before the set before the last operation, hset.other the set the   *)
(* last move has filled.                                                   *)
(***************************************************************************)
MaxSetKey == 3
MaxSetOps == 5
MaxSetBuckets == 5

KeysOf(h) == {t.key : t \in TermsOf(h)}

InitSet ==
    /\ kind = "poly"
    /\ m_s1 = Series("x", <<>>) /\ m_s2 = Series("x", <<>>)
    /\ pc = "set"
    /\ round = 1 /\ first_result = NoResult
    /\ bm = NoRun
    /\ fault_budget = MaxFaults
    /\ th = NoHeuristic
    /\ hset = NoSet
    /\ fi = NoInsert
    /\ est = NoEst
    /\ sync = NoSync
    /\ Blank

\* one operation: the set it leaves, the keys it leaves and what it returns
SetStep(op, arg, h2, other2, keys2, res) ==
    /\ pc = "set"
    /\ hset.ops < MaxSetOps
    /\ hset' = [h |-> h2, other |-> other2, keys |-> keys2, op |-> op, arg |-> arg,
                res |-> res, before |-> hset.h, prev |-> hset.op,
                ops |-> hset.ops + 1]
    /\ UNCHANGED << kind, m_s1, m_s2, m_v1, m_v2, trunc, pc, n_threads,
                    functor_list, retval_list, wpc, exceptions, retval,
                    retval_sym, final_estimate, idx, e_vector, new_sizes, mw,
                    touched, outcome, cfg_n_threads, main_thread, handled,
                    n_mult, n_est, faults, round, first_result, merge_input,
                    bm, fault_budget, th, sync, est, fi >>

\* h = hash_set(n_buckets)
SetConstruct(n) ==
    SetStep("construct", n, hash_set(n), hset.other, {}, NoResult_hs)

\* h.insert(k)
SetInsert(k) ==
    LET r == hs_insert(hset.h, k)
    IN  SetStep("insert", k, r.h, hset.other, hset.keys \cup {k},
                [NoResult_hs EXCEPT !.it = r.first, !.second = r.second])

\* h.erase(it), for an iterator to any element
SetErase(it) ==
    /\ it.bucket < bucket_count(hset.h)
    /\ it.pos <= Len(hset.h.b[it.bucket + 1])
    /\ SetStep("erase", hset.h.b[it.bucket + 1][it.pos].key, erase(hset.h, it),
               hset.other, hset.keys \ {hset.h.b[it.bucket + 1][it.pos].key},
               [NoResult_hs EXCEPT !.it = it])

\* h.rehash(n, n_threads)
SetRehash(n, nt) ==
    SetStep("rehash", n, rehash(hset.h, n), hset.other, hset.keys,
            [NoResult_hs EXCEPT !.val = nt])

\* h.clear()
SetClear ==
    SetStep("clear", 0, clear(hset.h), hset.other, {}, NoResult_hs)

\* other = std::move(h)
SetMove ==
    SetStep("move", 0, EmptySet, hset.h, {}, NoResult_hs)

\* h.find(k)
SetFind(k) ==
    SetStep("find", k, hset.h, hset.other, hset.keys,
            [NoResult_hs EXCEPT !.it = find(hset.h, k)])

\* h.bucket(k)
SetBucket(k) ==
    LET r == bucket(hset.h, k)
    IN  SetStep("bucket", k, hset.h, hset.other, hset.keys,
                [NoResult_hs EXCEPT !.err = r.err, !.val = r.val])

NextSet ==
    \/ \E n \in 0..MaxSetBuckets : SetConstruct(n)
    \/ \E k \in 0..MaxSetKey : SetInsert(k)
    \/ \E b \in 0..(bucket_count(hset.h) - 1), p \in 1..(MaxSetKey + 1) :
            SetErase([bucket |-> b, pos |-> p])
    \/ \E n \in 0..MaxSetBuckets, nt \in 1..MaxThreads : SetRehash(n, nt)
    \/ SetClear
    \/ SetMove
    \/ \E k \in 0..MaxSetKey : SetFind(k)
    \/ \E k \in 0..MaxSetKey : SetBucket(k)

SpecSet == InitSet /\ [][NextSet]_vars

(***************************************************************************)
(* The product of two series, term by term, as the truncator defines it.   *)
(***************************************************************************)
\* the terms of the product of t1 by t2 that the truncator tr keeps
KeptTerms(tr, t1, t2) ==
    IF is_active(tr) /\ is_skipping(tr)
    THEN IF trunc_skip(tr, t1, t2) THEN <<>> ELSE multiply(kind, t1, t2)
    ELSE IF is_active(tr)
         THEN SelectSeq(multiply(kind, t1, t2), LAMBDA t : ~trunc_filter(tr, t))
         ELSE multiply(kind, t1, t2)

\* the sum of the coefficients of the terms of key k in a sequence of terms
CfSum(ts, k) == SumSeq([n \in 1..Len(ts) |-> IF ts[n].key = k THEN ts[n].cf ELSE 0])

\* the sum of a sequence of terms, key by key, without the zero sums
TermsWith(keys, ts) == {Term(CfSum(ts, k), k) : k \in {x \in keys : CfSum(ts, x) # 0}}

\* the product of the terms ts1 by the terms ts2
ProductOf(tr, ts1, ts2) ==
    LET n2 == Len(ts2)
        kept == Flatten([n \in 1..(Len(ts1) * n2) |->
                    KeptTerms(tr, ts1[((n - 1) \div n2) + 1], ts2[((n - 1) % n2) + 1])])
    IN  TermsWith(0..(Len(ts1) + Len(ts2)), kept)

Product(tr) == ProductOf(tr, m_s1.terms, m_s2.terms)

\* the key-wise sum of the series given to final_merge
MergeSum ==
    LET all == Items(merge_input.retval)
               \o Flatten([r \in 1..Len(merge_input.retval_list) |->
                             Items(merge_input.retval_list[r])])
    IN  TermsWith({all[n].key : n \in 1..Len(all)}, all)

\* the series holds each key once, no ignorable term, and its recorded size
\* is the number of its terms
WellFormed(h) ==
    /\ h.n = Len(Items(h))
    /\ h.n = Cardinality({Items(h)[n].key : n \in 1..Len(Items(h))})
    /\ \A t \in TermsOf(h) : ~is_ignorable(t)

\* the result of the single-threaded path of execute() on the two series
SingleThreadResult ==
    LET f  == Functor(0, size(m_s1), size(m_s2))
        i1 == [i \in 1..size(m_s1) |-> i]
        i2 == [i \in 1..size(m_s2) |-> i]
        v1 == sort_for_skip1(trunc, f, i1)
        v2 == sort_for_skip2(trunc, f, i2)
    IN  TermsOf(MultiplyInsert(trunc, f, v1, v2, EmptySet,
                               FunctorPairs(trunc, f, v1, v2)))

SameSymbols == m_s1.sym = m_s2.sym
NonEmpty == ~empty(m_s1) /\ ~empty(m_s2)

(***************************************************************************)
(* Properties.                                                             *)
(***************************************************************************)
\* C1: whatever the configured number of threads, and whatever the order in
\* which the workers run, a call in which nothing fails returns the terms
\* that the single-threaded path returns.
C1_SameAsSingleThread ==
    (pc = "done" /\ SameSymbols /\ NonEmpty /\ faults = 0)
        => (outcome.st = "returned" /\ TermsOf(retval) = SingleThreadResult)

\* C2: a call either returns the complete product of the two series or
\* throws; an exception of a worker is the exception of the call, and a
\* call that throws hands no partly filled series to the caller.
C2_ProductOrThrow ==
    pc = "done"
        => /\ outcome.st \in {"returned", "thrown"}
           /\ outcome.st = "returned"
                => /\ TermsOf(retval) = Product(trunc)
                   /\ WellFormed(retval)
                   /\ exceptions = <<>> /\ e_vector = <<>>
           /\ outcome.st = "thrown" => retval = EmptySet
           /\ (exceptions # <<>> \/ e_vector # <<>>) => outcome.st = "thrown"

C2_Witness ==
    /\ pc = "done" /\ outcome.st = "returned"
    /\ n_threads >= 2 /\ merge_input # NoMerge
    /\ Cardinality(TermsOf(retval)) >= 3

\* C3: no step of a multiplication changes the terms of the two series,
\* whether the call returns or throws; the pointer arrays go on holding one
\* pointer to each term of their series.
IsPointerArray(v, sr) == Len(v) = size(sr) /\ {v[n] : n \in 1..Len(v)} = 1..size(sr)

C3_InputsUnchanged ==
    [][/\ m_s1' = m_s1
       /\ m_s2' = m_s2
       /\ m_v1' # <<>> => IsPointerArray(m_v1', m_s1')
       /\ m_v2' # <<>> => IsPointerArray(m_v2', m_s2')]_vars

C3_Witness ==
    /\ pc = "done" /\ n_threads >= 2
    /\ is_skipping(trunc)
    /\ m_v1 # [i \in 1..size(m_s1) |-> i]
    /\ outcome.st = "thrown"

\* C4: in the second pass of final_merge the bucket ranges of the threads
\* are pairwise disjoint and together are all the buckets of the receiving
\* series, also with fewer buckets than threads; a thread touches only the
\* buckets of its range, and each term of the per-thread series is taken by
\* one thread only, and by exactly one when the pass has ended.
RangeOf(k) == {b \in 0..(bucket_count(retval) - 1) : b >= mw[k].start /\ b < mw[k].end}

C4_DisjointRanges ==
    pc = "join_merge"
        => /\ \A a, b \in 1..n_threads : a # b => RangeOf(a) \cap RangeOf(b) = {}
           /\ UNION {RangeOf(k) : k \in 1..n_threads} = 0..(bucket_count(retval) - 1)
           /\ \A k \in 1..n_threads :
                /\ mw[k].start <= mw[k].end /\ mw[k].end <= bucket_count(retval)
                /\ touched[k] \subseteq RangeOf(k)
           /\ \A j \in 1..Len(idx) : Cardinality(handled[j]) <= 1
           /\ (AllDone /\ e_vector = <<>>)
                => \A j \in 1..Len(idx) : Cardinality(handled[j]) = 1

C4_Witness ==
    /\ pc = "join_merge" /\ AllDone /\ e_vector = <<>>
    /\ bucket_count(retval) < n_threads
    /\ Len(idx) >= 2
    /\ touched[n_threads] # {}

\* C5: after a successful final_merge the receiving series holds, for each
\* key, the sum of the coefficients that key had in the receiving series
\* and in the per-thread series, whatever the number of threads, their
\* order and the distribution of the terms; zero sums are absent.
C5_KeywiseSum ==
    (pc = "done" /\ outcome.st = "returned" /\ merge_input # NoMerge)
        => /\ TermsOf(retval) = MergeSum
           /\ WellFormed(retval)
           /\ ~Overloaded(retval)

C5_Witness ==
    /\ pc = "done" /\ outcome.st = "returned"
    /\ merge_input.retval.n >= 1
    /\ Len(merge_input.retval_list) = 2
    /\ n_threads = 3
    /\ \E t \in TermsOf(merge_input.retval) :
         \E u \in TermsOf(merge_input.retval_list[1]) :
            t.key = u.key /\ t.cf + u.cf # 0
    /\ retval.n >= 2

\* C6: when nothing fails, the multiplication of the first series by the
\* second and of the second by the first return the same terms, for any
\* number of threads.
C6_Commutes ==
    (pc = "done" /\ round = 2 /\ faults = 0 /\ first_result.st = "returned")
        => (outcome.st = "returned" /\ TermsOf(retval) = first_result.terms)

\* C7: the multiplication by the empty series returns the empty series and
\* multiplies no terms; the multiplication by the series of the single unit
\* term returns the terms of the other series.
IsUnitFor(u, ts) ==
    \A n \in 1..Len(ts) :
        LET tmp == multiply(kind, ts[n], u)
        IN  /\ \A m \in 1..Len(tmp) : tmp[m].key = ts[n].key
            /\ CfSum(tmp, ts[n].key) = ts[n].cf

C7_EmptyAndUnit ==
    (pc = "done" /\ SameSymbols /\ faults = 0)
        => /\ (empty(m_s1) \/ empty(m_s2))
                => /\ outcome.st = "returned"
                   /\ retval = EmptySet
                   /\ n_mult = 0 /\ n_est = 0
           /\ (m_s2.terms = UnitSeries /\ IsUnitFor(UnitSeries[1], m_s1.terms)
                    /\ ~is_active(trunc))
                => /\ outcome.st = "returned"
                   /\ TermsOf(retval) = {m_s1.terms[n] : n \in 1..size(m_s1)}

SharedKeys ==
    LET hs == << merge_input.retval >> \o merge_input.retval_list
    IN  UNION {KeysOf(hs[a]) \cap KeysOf(hs[b]) :
                <<a, b>> \in {q \in (1..Len(hs)) \X (1..Len(hs)) : q[1] < q[2]}}

Monotone(r) ==
    \A i \in 0..(r.size1 - 1) : \A j, k \in 0..(r.size2 - 1) :
        (r.sk[<<i, j>>] /\ j < k) => r.sk[<<i, k>>]

\* for (i ...) for (j ...) { if (!skip(i, j)) multiply }
NaivePairs(r) == {q \in (0..(r.size1 - 1)) \X (0..(r.size2 - 1)) : ~r.sk[q]}

C9_SkipAsNaive ==
    bm.st = "done"
        => /\ \A n \in 1..Len(bm.pairs) : ~bm.sk[bm.pairs[n]]
           /\ Monotone(bm)
                => /\ {bm.pairs[n] : n \in 1..Len(bm.pairs)} = NaivePairs(bm)
                   /\ Len(bm.pairs) = Cardinality(NaivePairs(bm))

C9_Witness ==
    /\ bm.st = "done" /\ Monotone(bm)
    /\ bm.size1 = 3 /\ bm.size2 = 5
    /\ bm.sk[<<0, 1>>] /\ ~bm.sk[<<0, 0>>]
    /\ bm.sk[<<2, 3>>] /\ ~bm.sk[<<2, 2>>]
    /\ Len(bm.pairs) >= 4

\* C10: with an active truncator that filters and does not skip, insert()
\* drops the product terms that filter rejects and only those: a per-thread
\* series that is complete, and the returned series, are the sums of the
\* product terms that filter does not reject.
BlockProduct(i) ==
    LET f == functor_list[i]
    IN  ProductOf(trunc, [n \in 1..mw[i].s1 |-> Ptr1(f, m_v1, n - 1)],
                  [n \in 1..size(m_s2) |-> Ptr2(f, m_v2, n - 1)])

Filters == is_active(trunc) /\ is_filtering(trunc) /\ ~is_skipping(trunc)

C10_FilterDrops ==
    Filters
        => /\ (pc = "join_populate" /\ AllDone /\ exceptions = <<>>)
                => \A i \in 1..n_threads : TermsOf(retval_list[i]) = BlockProduct(i)
           /\ (pc = "done" /\ outcome.st = "returned")
                => TermsOf(retval) = Product(trunc)

C10_Witness ==
    /\ Filters /\ pc = "done" /\ outcome.st = "returned"
    /\ n_threads >= 2 /\ merge_input # NoMerge
    /\ Product(trunc) # {}
    /\ Product(trunc) # Product(NoTruncator)

\* C11: in the populate phase, when workers throw, the driver re-throws only
\* after every worker has run to its end and has been joined; the exception
\* re-thrown is the first one pushed to the shared list; the final estimate
\* and the final merge are never started
C11_PopulateRethrow ==
    exceptions # <<>> =>
        /\ pc \in {"join_populate", "done"}
        /\ final_estimate = 0 /\ merge_input = NoMerge /\ retval = EmptySet
        /\ pc = "done" =>
              /\ AllDone
              /\ Len(wpc) = n_threads
              /\ outcome = exceptions[1]

\* two workers have thrown, the one of the last block first, and a third
\* worker has completed its block
C11_Witness ==
    /\ pc = "done"
    /\ Len(exceptions) = 2
    /\ n_threads = 3
    /\ exceptions[1].thread > exceptions[2].thread
    /\ outcome = exceptions[1]

\* C12: when a worker of final_merge throws, in the indexing pass or in the
\* insertion pass, all the workers of that pass are joined, the series that
\* receives the merge is cleared, every per-thread series is cleared, the
\* first exception captured is re-thrown and no result is produced
C12_MergeFailure ==
    e_vector # <<>> =>
        /\ pc \in {"join_index", "join_merge", "done"}
        /\ outcome.st # "returned"
        /\ pc = "done" =>
              /\ AllDone
              /\ Len(wpc) = (IF handled = <<>> THEN Len(retval_list) ELSE n_threads)
              /\ outcome = e_vector[1]
              /\ retval = EmptySet
              /\ \A i \in DOMAIN retval_list : retval_list[i] = EmptySet

\* two workers of the insertion pass have thrown, the later range first,
\* after a worker had inserted a new term in the target, with terms in a
\* per-thread series before the merge
C12_Witness ==
    /\ pc = "done"
    /\ handled # <<>>
    /\ Len(e_vector) = 2
    /\ e_vector[1].thread > e_vector[2].thread
    /\ outcome = e_vector[1]
    /\ \E k \in DOMAIN mw : mw[k].count_plus > 0
    /\ \E i \in DOMAIN merge_input.retval_list : merge_input.retval_list[i].n > 0
    /\ Len(retval_list) = Len(merge_input.retval_list)

\* C13: an error of the estimator (its own overflow or division by zero, or
\* a failure raised while it runs) never makes the multiplication fail,
\* wherever the driver runs it: the call never ends with such an error
C13_EstimatorNeverFails ==
    outcome.st = "thrown" => outcome.what \notin {"zero_division_error", "overflow_error"}

\* C14: the construction of a multiplier on two series whose symbol sets
\* differ fails with an invalid-argument error, before any term pointer is
\* collected and before any multiplication is attempted
C14_IncompatibleSymbols ==
    (m_s1.sym # m_s2.sym /\ pc # "construct") =>
        /\ pc = "done"
        /\ outcome = Thrown("invalid_argument", 0)
        /\ m_v1 = <<>> /\ m_v2 = <<>>
        /\ n_threads = 0 /\ wpc = <<>>
        /\ n_mult = 0 /\ n_est = 0
        /\ retval = EmptySet /\ retval_sym = NoSymbols

\* the constructor has thrown on two non-empty series over different symbols
C14_Witness ==
    /\ pc = "done"
    /\ m_s1.sym # m_s2.sym
    /\ size(m_s1) >= 2 /\ size(m_s2) >= 2
    /\ outcome = Thrown("invalid_argument", 0)

\* C15: the number of threads execute() uses is at least 1, at most the
\* configured number of threads (the heuristic only lowers it) and at most
\* the number of terms of the first operand; the populate phase spawns
\* exactly that number of workers, one functor and one series each
C15_ThreadBounds ==
    (pc \in {"single", "multi", "join_populate", "estimate", "final_merge",
             "join_index", "join_merge"}) =>
        /\ 1 <= n_threads
        /\ n_threads <= cfg_n_threads
        /\ n_threads <= size(m_s1)
        /\ pc = "join_populate" =>
              /\ Len(wpc) = n_threads
              /\ Len(functor_list) = n_threads
              /\ Len(retval_list) = n_threads

\* three threads configured and enough work for them, two terms in the
\* first operand: two workers have been spawned
C15_Witness ==
    /\ pc = "join_populate"
    /\ cfg_n_threads = 3
    /\ (size(m_s1) * size(m_s2)) \div cfg_n_threads >= min_work
    /\ size(m_s1) = 2
    /\ n_threads = 2
    /\ Len(wpc) = 2

C17_NonMainSingle ==
    (~main_thread /\ pc \notin {"construct", "call"}) =>
        /\ pc \in {"single", "done"}
        /\ wpc = <<>> /\ functor_list = <<>> /\ retval_list = <<>>
        /\ exceptions = <<>> /\ e_vector = <<>> /\ merge_input = NoMerge

\* a product for which the heuristic allows three threads has been made
\* and returned on a thread that is not the main one
C17_Witness ==
    /\ pc = "done"
    /\ ~main_thread
    /\ n_threads = 3
    /\ outcome = Returned
    /\ n_mult = size(m_s1) * size(m_s2)
    /\ retval.n > 0

\* C18: the minimum work per thread is the setting min_work_per_thread:
\* the number of threads is the one the heuristic gives for that setting,
\* and with the setting at 1 and k threads configured a product whose
\* first operand has at least k terms is executed by k workers
C18_ConfiguredMinWork ==
    th.st = "done" =>
        /\ th.n_threads = ThreadsFor(th.setting, th.cfg, th.size1, th.size2)
        /\ (th.setting = 1 /\ th.size1 >= th.cfg) => th.n_threads = th.cfg

C20_SizeBound ==
    (pc = "done" /\ outcome = Returned) =>
        /\ retval.n <= size(m_s1) * size(m_s2) * result_size(kind)
        /\ Cardinality(TermsOf(retval)) <= size(m_s1) * size(m_s2) * result_size(kind)

\* a product made by three threads and merged into a series that already
\* held terms has been returned with three terms or more
C20_Witness ==
    /\ pc = "done"
    /\ outcome = Returned
    /\ n_threads = 3 /\ main_thread
    /\ merge_input.retval.n > 0
    /\ retval.n >= 3

\* C21: after any sequence of public operations on the hash set
\* (construction with a number of buckets, insert, erase, rehash, clear,
\* move) the size divided by the number of buckets is at most
\* max_load_factor, which is positive and at most 1, and the load factor
\* of a set without elements is 0, also when the set has no bucket
C21_LoadFactor ==
    pc = "set" =>
        \A h \in {hset.h, hset.other} :
            /\ load_factor(h)[1] <= load_factor(h)[2] * max_load_factor
            /\ max_load_factor > 0 /\ max_load_factor <= 1
            /\ load_factor(h)[2] > 0
            /\ h.n = Len(Items(h))
            /\ Len(Items(h)) = 0 => load_factor(h)[1] = 0

\* a set as loaded as it may be, after an erase and a rehash to its size
C21_Witness ==
    /\ pc = "set"
    /\ hset.op = "rehash"
    /\ hset.h.n >= 2
    /\ hset.h.n = bucket_count(hset.h)
    /\ bucket_count(hset.before) > bucket_count(hset.h)

\* C22: the hash set behaves as a mathematical set of keys: insert(k)
\* returns true and grows the size by one iff k was absent, else it returns
\* false with an iterator equal to find(k) and the size unchanged; find(k)
\* is end() iff k is absent; erase removes exactly the element pointed to;
\* an iteration visits exactly size() elements
C22_SetOfKeys ==
    pc = "set" =>
        /\ KeysOf(hset.h) = hset.keys
        /\ hset.h.n = Cardinality(hset.keys)
        /\ Len(Items(hset.h)) = hset.h.n
        /\ hset.op = "insert" =>
                LET absent == hset.arg \notin KeysOf(hset.before)
                IN  /\ hset.res.second = absent
                    /\ hset.h.n = hset.before.n + (IF absent THEN 1 ELSE 0)
                    /\ KeysOf(hset.h) = KeysOf(hset.before) \cup {hset.arg}
                    /\ hset.res.it = find(hset.h, hset.arg)
                    /\ ~absent => hset.res.it = find(hset.before, hset.arg)
        /\ hset.op = "find" =>
                /\ hset.res.it = end_it <=> hset.arg \notin hset.keys
                /\ hset.res.it # end_it =>
                        hset.h.b[hset.res.it.bucket + 1][hset.res.it.pos].key = hset.arg
        /\ hset.op = "erase" =>
                /\ hset.arg \in KeysOf(hset.before)
                /\ KeysOf(hset.h) = KeysOf(hset.before) \ {hset.arg}
                /\ hset.h.n = hset.before.n - 1

\* a second insert of a key that shares its bucket with an earlier key
C22_Witness ==
    /\ pc = "set"
    /\ hset.op = "insert"
    /\ ~hset.res.second
    /\ hset.res.it.pos = 2
    /\ hset.h.n = hset.before.n
    /\ hset.h.n >= 2

\* C23: after a successful rehash(n), with any number of threads >= 1, the
\* set has at least n buckets and the same elements; rehash(0) on an empty
\* set releases all the buckets; a request too small for the elements
\* stored (0 included) leaves the number of buckets unchanged
C23_Rehash ==
    pc = "set" /\ hset.op = "rehash" =>
        LET too_small == hset.before.n > hset.arg * max_load_factor
        IN  /\ hset.res.val >= 1
            /\ TermsOf(hset.h) = TermsOf(hset.before)
            /\ hset.h.n = hset.before.n
            /\ Len(Items(hset.h)) = hset.before.n
            /\ ~too_small /\ hset.arg > 0 => bucket_count(hset.h) >= hset.arg
            /\ hset.arg = 0 /\ hset.before.n = 0 => bucket_count(hset.h) = 0
            /\ too_small => bucket_count(hset.h) = bucket_count(hset.before)

\* a set of several elements rehashed to more buckets by several threads
C23_Witness ==
    /\ pc = "set"
    /\ hset.op = "rehash"
    /\ hset.res.val >= 2
    /\ hset.before.n >= 2
    /\ hset.arg > bucket_count(hset.before)
    /\ bucket_count(hset.h) >= hset.arg

\* C24: clear() leaves a set of size 0 with 0 buckets, from any state, and
\* the set stays usable: an insert after it succeeds and the key is found
C24_Clear ==
    pc = "set" =>
        /\ hset.op = "clear" =>
                /\ hset.h.n = 0
                /\ Items(hset.h) = << >>
                /\ bucket_count(hset.h) = 0
                /\ find(hset.h, hset.arg) = end_it
        /\ hset.op = "insert" /\ hset.prev = "clear" =>
                /\ hset.res.second
                /\ hset.h.n = 1
                /\ find(hset.h, hset.arg) # end_it
                /\ find(hset.h, hset.arg) = hset.res.it

\* a set of several elements in several buckets has just been cleared
C24_Witness ==
    /\ pc = "set"
    /\ hset.op = "clear"
    /\ hset.before.n >= 2
    /\ bucket_count(hset.before) >= 2
    /\ hset.h.n = 0

\* C25: bucket(k) on a set without buckets fails with a zero-division
\* error and leaves the set unchanged; find(k) on such a set does not fail
\* and returns end()
C25_ZeroBuckets ==
    pc = "set" /\ bucket_count(hset.before) = 0 =>
        /\ hset.op = "bucket" =>
                /\ hset.res.err = "zero_division_error"
                /\ hset.h = hset.before
        /\ hset.op = "find" =>
                /\ hset.res.err = ""
                /\ hset.res.it = end_it
                /\ hset.h = hset.before

\* bucket() has failed on a set that lost its buckets to clear()
C25_Witness ==
    /\ pc = "set"
    /\ hset.op = "bucket"
    /\ hset.prev = "clear"
    /\ bucket_count(hset.before) = 0
    /\ hset.res.err = "zero_division_error"

\* C26: with no skipping, blocked_multiplication multiplies and inserts
\* every pair (i, j) of [0, size1) x [0, size2) exactly once, for all
\* sizes: smaller than one tile, exact multiples of the side of a tile, and
\* with a remainder in either or both dimensions
NoSkip(r) == \A q \in DOMAIN r.sk : ~r.sk[q]

C26_EveryPairOnce ==
    pc = "blocked" /\ bm.st = "done" /\ NoSkip(bm) =>
        /\ \A q \in (0..(bm.size1 - 1)) \X (0..(bm.size2 - 1)) :
                Cardinality({n \in 1..Len(bm.pairs) : bm.pairs[n] = q}) = 1
        /\ Len(bm.pairs) = bm.size1 * bm.size2

\* several full tiles and a remainder in both dimensions, nothing skipped
C26_Witness ==
    /\ pc = "blocked" /\ bm.st = "done" /\ NoSkip(bm)
    /\ bm.size1 >= 2 * bsize1 + 1 /\ bm.size1 % bsize1 # 0
    /\ bm.size2 >= 2 * bsize1 + 1 /\ bm.size2 % bsize1 # 0
    /\ Len(bm.pairs) = bm.size1 * bm.size2

\* C27: the order of blocked_multiplication.  A pair is of a full tile when
\* both its indices are below the start of the remainders.
InFullTile(r, q) ==
    /\ q[1] < (r.size1 \div bsize1) * bsize1
    /\ q[2] < (r.size2 \div bsize1) * bsize1

\* row and column of the tile of a pair; a remainder is one more row or column
TileOf(r, q) == << q[1] \div bsize1, q[2] \div bsize1 >>

LexLess(a, b) ==
    \E n \in 1..Len(a) : a[n] < b[n] /\ \A m \in 1..(n - 1) : a[m] = b[m]

\* C27 as stated: all the full tiles are processed first and only then the
\* right remainder, the bottom remainder and the corner: no pair of a
\* remainder is multiplied before the last pair of the last full tile
C27_FullTilesFirst ==
    pc = "blocked" /\ bm.st = "done" =>
        \A a, b \in 1..Len(bm.pairs) :
            InFullTile(bm, bm.pairs[a]) /\ ~InFullTile(bm, bm.pairs[b]) => a < b

\* C27, amended: the rows of tiles are processed one after the other, each
\* one tile after the other (row-major inside each tile) with the right
\* remainder of the row of tiles after its last full tile, and the bottom
\* remainder and the corner after all of them: no pair of the bottom
\* remainder or the corner comes before the last pair of the last full
\* tile, and no pair of the right remainder before the last pair of the
\* last full tile of its own row of tiles
C27_TileRowsInOrder ==
    pc = "blocked" /\ bm.st = "done" =>
        /\ \A a, b \in 1..Len(bm.pairs) :
                a < b => LexLess(TileOf(bm, bm.pairs[a]) \o bm.pairs[a],
                                 TileOf(bm, bm.pairs[b]) \o bm.pairs[b])
        /\ \A a, b \in 1..Len(bm.pairs) :
                InFullTile(bm, bm.pairs[a]) /\ ~InFullTile(bm, bm.pairs[b]) /\ b < a
                    => /\ bm.pairs[b][1] < (bm.size1 \div bsize1) * bsize1
                       /\ bm.pairs[b][1] \div bsize1 < bm.pairs[a][1] \div bsize1

\* a pair of the right remainder multiplied before a pair of a full tile
C27_Witness ==
    /\ pc = "blocked" /\ bm.st = "done"
    /\ bm.size1 > 2 * bsize1 /\ bm.size2 > 2 * bsize1
    /\ \E a, b \in 1..Len(bm.pairs) :
            /\ b < a
            /\ InFullTile(bm, bm.pairs[a])
            /\ ~InFullTile(bm, bm.pairs[b])

\* C28: in the multi-threaded path the n_threads blocks of the first
\* operand are contiguous, pairwise disjoint, non-empty and cover [0, n1):
\* blocks 0 .. n_threads-2 have n1 / n_threads terms and the last one has
\* all the remaining terms; hence every pair (i, j) is multiplied by
\* exactly one worker, and the block size a worker runs with is the one
\* its functor was built with
C28_Blocks ==
    pc = "join_populate" =>
        LET n == n_threads
            size1 == Len(m_v1)
            fl == functor_list
        IN  /\ Len(fl) = n /\ Len(retval_list) = n /\ DOMAIN mw = 1..n
            /\ \A k \in 1..n :
                    /\ fl[k].s1 >= 1
                    /\ fl[k].off = (k - 1) * (size1 \div n)
                    /\ k < n => fl[k].s1 = size1 \div n
                    /\ k = n => fl[k].off + fl[k].s1 = size1
                    /\ k < n => fl[k].off + fl[k].s1 = fl[k + 1].off
                    /\ mw[k].s1 = fl[k].s1
                    /\ fl[k].s2 = Len(m_v2)
            /\ \A q \in (0..(size1 - 1)) \X (0..(Len(m_v2) - 1)) :
                    Cardinality({k \in 1..n : /\ fl[k].off <= q[1]
                                              /\ q[1] < fl[k].off + fl[k].s1
                                              /\ q[2] < fl[k].s2}) = 1

\* two workers on three terms: a block of one term and a last block of two
C28_Witness ==
    /\ pc = "join_populate"
    /\ n_threads = 2
    /\ Len(m_v1) = 3
    /\ functor_list[1].s1 = 1
    /\ functor_list[2].s1 = 2
    /\ \A k \in 1..2 : wpc[k] = "done"

SliceStart(r) == SumSeq([k \in 1..(r - 1) |-> retval_list[k].n])

SliceOf(r) == (SliceStart(r) + 1)..(SliceStart(r) + retval_list[r].n)

C30_IndexSlices ==
    /\ [](pc = "join_index" =>
            /\ DOMAIN wpc = DOMAIN retval_list
            /\ \A r \in DOMAIN retval_list : mw[r].i = SliceStart(r)
            /\ \A a, b \in DOMAIN retval_list :
                    a # b => SliceOf(a) \cap SliceOf(b) = {}
            /\ UNION {SliceOf(r) : r \in DOMAIN retval_list} = 1..Len(idx))
    /\ [][pc = "join_index" =>
            \A r \in DOMAIN wpc :
                wpc[r] = "run" /\ wpc'[r] = "done" =>
                    /\ Len(idx') = Len(idx)
                    /\ \A n \in 1..Len(idx) : idx'[n] # idx[n] => n \in SliceOf(r)]_vars
    /\ [](pc = "join_merge" /\ (\A k \in DOMAIN wpc : wpc[k] = "run") =>
            \A r \in DOMAIN retval_list :
                \A p \in 1..Len(Items(retval_list[r])) :
                    /\ Cardinality({n \in 1..Len(idx) :
                                        idx[n].src = r /\ idx[n].pos = p}) = 1
                    /\ \A n \in 1..Len(idx) :
                            idx[n].src = r /\ idx[n].pos = p =>
                                /\ n \in SliceOf(r)
                                /\ idx[n].bucket =
                                      _bucket(retval, Items(retval_list[r])[p]))

\* the second pass is about to start on an index of three series
C30_Witness ==
    /\ pc = "join_merge"
    /\ \A k \in DOMAIN wpc : wpc[k] = "run"
    /\ Len(retval_list) = 3
    /\ \A r \in 1..3 : retval_list[r].n >= 1
    /\ retval_list[1].n >= 2
    /\ Len(idx) >= 4
    /\ \E a, b \in 1..Len(idx) : idx[a].bucket # idx[b].bucket

\* C31: after a successful final_merge the size recorded by the receiving
\* series is the number of terms stored in it: the size before the merge
\* plus the sum of exactly n_threads deltas, one of each thread of the
\* second pass (terms inserted minus terms erased) and no exception; it is
\* never negative, and it is written once, after the join of the threads
\* (a merge that fails ends with the series cleared by execute())
C31_RecordedSize ==
    /\ [](pc = "join_merge" =>
            /\ Len(new_sizes) + Len(e_vector)
                    = Cardinality({k \in DOMAIN wpc : wpc[k] = "done"})
            /\ retval.n = merge_input.retval.n)
    /\ []((pc = "done" /\ outcome.st = "returned" /\ merge_input # NoMerge) =>
            /\ e_vector = << >>
            /\ Len(new_sizes) = n_threads
            /\ retval.n = merge_input.retval.n + SumSeq(new_sizes)
            /\ retval.n = Len(Items(retval))
            /\ retval.n >= 0)
    /\ [][(/\ pc \in {"join_index", "join_merge"}
            /\ outcome'.st # "thrown"
            /\ retval'.n # retval.n) =>
            /\ pc = "join_merge"
            /\ \A k \in DOMAIN wpc : wpc[k] = "done"
            /\ pc' = "done"]_vars

\* a merge that has returned, with a thread that erased more terms than it
\* inserted and a thread that inserted more than it erased
C31_Witness ==
    /\ pc = "done" /\ outcome.st = "returned" /\ merge_input # NoMerge
    /\ merge_input.retval.n >= 1
    /\ \E a, b \in 1..Len(new_sizes) : new_sizes[a] < 0 /\ new_sizes[b] > 0
    /\ retval.n = Len(Items(retval))

\* C32: after a successful final_merge the receiving series satisfies
\* size / bucket_count <= max_load_factor: when the insertions into the
\* buckets have pushed the load above the maximum, the series is rehashed
\* to at least ceil(size / max_load_factor) buckets, and no term is lost
\* by that rehash
C32_MergedLoad ==
    [][(pc = "join_merge" /\ pc' = "done" /\ outcome'.st = "returned") =>
        LET stored == Len(Items(retval))
            over == stored > bucket_count(retval) * max_load_factor
        IN  /\ retval'.n <= bucket_count(retval') * max_load_factor
            /\ retval'.n = stored
            /\ TermsOf(retval') = TermsOf(retval)
            /\ Len(Items(retval')) = stored
            /\ over => bucket_count(retval') * max_load_factor >= stored
            /\ ~over => bucket_count(retval') = bucket_count(retval)]_vars

\* a merge has returned a series with more buckets than it received, and
\* several terms
C32_Witness ==
    /\ pc = "done" /\ outcome.st = "returned" /\ merge_input # NoMerge
    /\ bucket_count(retval) > bucket_count(merge_input.retval)
    /\ merge_input.retval.n >= 1
    /\ retval.n > bucket_count(merge_input.retval)
    /\ retval.n >= 3

\* C33: when final_merge starts, the receiving series has at least one
\* bucket and bucket_count * max_load_factor >= final estimate (the
\* estimate being raised to 1 when it is 0), both when a per-thread series
\* is taken as the receiving series and when a new series is rehashed for
\* it; a per-thread series that is taken is removed from retval_list, so
\* that its terms are not merged twice
C33_TargetSized ==
    /\ [](pc = "final_merge" =>
            /\ final_estimate >= 1
            /\ bucket_count(retval) >= 1
            /\ bucket_count(retval) * max_load_factor >= final_estimate)
    /\ [][(pc = "estimate" /\ pc' = "final_merge") =>
            LET cand == {i \in DOMAIN retval_list :
                            bucket_count(retval_list[i]) * max_load_factor
                                >= final_estimate'}
            IN  IF cand = {}
                THEN /\ Items(retval') = << >> /\ retval'.n = 0
                     /\ retval_list' = retval_list
                ELSE \E i \in cand :
                        /\ retval' = retval_list[i]
                        /\ Len(retval_list') = Len(retval_list) - 1
                        /\ \A k \in 1..(i - 1) : retval_list'[k] = retval_list[k]
                        /\ \A k \in i..Len(retval_list') :
                                retval_list'[k] = retval_list[k + 1]]_vars

\* final_merge is about to start on a per-thread series that holds terms
C33_Witness ==
    /\ pc = "final_merge"
    /\ Len(retval_list) = n_threads - 1
    /\ retval.n >= 2
    /\ \E i \in DOMAIN retval_list : retval_list[i].n >= 1
    /\ final_estimate >= 1

\* C34: every call to execute terminates: under fair scheduling the joins
\* of the threads of the populate phase and of both passes of final_merge
\* are passed, because a thread takes a finite number of steps, holds at
\* most one mutex at a time (the one of the exceptions or the one of the
\* sizes, never both) and never waits for another thread
MutexesHeldBy(k) ==
    (IF sync.mtx_e = k THEN 1 ELSE 0) + (IF sync.mtx_m = k THEN 1 ELSE 0)

C34_Terminates ==
    /\ [](pc = "locks" =>
            \A k \in DOMAIN sync.w :
                /\ MutexesHeldBy(k) <= 1
                /\ sync.w[k].at = "end" => MutexesHeldBy(k) = 0)
    /\ \A ph \in {"populate", "index", "merge"} :
            (sync.phase = ph) ~> (sync.phase # ph)
    /\ <>(sync.phase = "done")

\* in the second pass a thread holds the mutex of the sizes, another waits
\* for it and a third one has thrown
C34_Witness ==
    /\ pc = "locks" /\ sync.phase = "merge"
    /\ \E a, b, c \in DOMAIN sync.w :
            /\ sync.mtx_m = a /\ sync.w[a].at = "locked_m"
            /\ sync.w[b].at = "lock_m"
            /\ sync.w[c].at \in {"catch", "locked_e"}

\* C35: when the estimator or rehasher() returns - with an estimate, without
\* having run the estimator, or after catching the estimator's exception -
\* the series it was given to work in holds no term: none of the products
\* of the trials is left in it
C35_ScratchEmpty ==
    (pc = "estimator" /\ est.st \in {"estimated", "returned"})
        => /\ Items(est.r) = << >>
           /\ est.r.n = 0

\* rehasher() has returned after an exception thrown in the middle of a
\* trial, some trials having been completed before
C35_Witness ==
    /\ pc = "estimator"
    /\ est.via = "rehasher" /\ est.st = "returned"
    /\ ~est.first
    /\ est.n >= 1 /\ est.n < ntrials

\* the maximum of the sweep and the number of terms of a product, in a run
\* of the estimator
TrialMax == MaxM(size(m_s1), size(m_s2))
TrialArity == result_size(kind)
TrialDone == pc = "estimator" /\ est.st = "called" /\ est.n >= 1

\* the pairs of a trial are pairwise distinct
TrialPairsDistinct ==
    \A a, b \in 1..Len(est.last.pairs) : a # b => est.last.pairs[a] # est.last.pairs[b]

\* every product but the last made the series grow by its full arity; the
\* sweep was left by the break exactly when the last one did not, and the
\* count is the number of terms inserted by the products before it
TrialStopsAtFirst ==
    LET n == Len(est.last.pairs)
    IN  /\ Len(est.last.grown) = n
        /\ \A a \in 1..(n - 1) : est.last.grown[a] = a * TrialArity
        /\ est.last.broke <=> (n >= 1 /\ est.last.grown[n] # n * TrialArity)
        /\ est.last.count = TrialArity * (IF est.last.broke THEN n - 1 ELSE n)
        /\ ~est.last.broke => est.last.count >= TrialMax

\* C36: in one trial the sweep multiplies pairwise distinct index pairs,
\* stops at the first product that does not make the series grow by its full
\* arity, records as count the terms inserted before that product, and goes
\* on only while count < M: the count stays below M + arity
C36_Sweep ==
    TrialDone =>
        /\ TrialPairsDistinct
        /\ TrialStopsAtFirst
        /\ est.last.count < TrialMax + TrialArity

\* a sweep that wrapped around the first operand and rotated the second:
\* it made more products than the first operand has terms
C36_Witness ==
    /\ TrialDone
    /\ Len(est.last.pairs) > size(m_s1)
    /\ est.last.count >= TrialMax

\* C36 as stated: the count is at most M
C36_CountAtMostM ==
    TrialDone =>
        /\ TrialPairsDistinct
        /\ TrialStopsAtFirst
        /\ est.last.count <= TrialMax

\* C37: for non-empty operands the final estimate is defined and bounded:
\* after the ten trials 0 <= filtered <= total and total > 0, the final
\* formula never divides by zero and its value lies between 0 and
\* 4 * mean * mean, mean being total / 10
C37_EstimateDefined ==
    pc = "estimator" =>
        /\ est.n = ntrials => (0 <= est.filtered /\ est.filtered <= est.total /\ est.total > 0)
        /\ est.result.err # "zero_division_error"
        /\ est.st = "estimated" =>
                LET mean == est.total \div ntrials
                IN  0 <= est.result.val /\ est.result.val <= multiplier * mean * mean

\* the sum of the coefficients of a sequence of terms
RECURSIVE SumCf(_)
SumCf(ts) == IF ts = << >> THEN 0 ELSE Head(ts).cf + SumCf(Tail(ts))

\* the keys of the terms of a series
KeysIn(h) == {t.key : t \in TermsOf(h)}

\* C38: with an active skipping truncator insert() does not consult filter:
\* whatever CheckFilter is, every term of the product (that series::insert
\* does not drop as ignorable) is in the series after the call, also when
\* filter would discard it, and the coefficients of the series have grown
\* by those of the whole product
C38_SkippingInsertsAll ==
    (pc = "insert" /\ fi.st = "inserted" /\ is_active(fi.tr) /\ is_skipping(fi.tr))
        => /\ \A n \in 1..Len(fi.tmp) :
                ~is_ignorable(fi.tmp[n]) => fi.tmp[n].key \in KeysIn(fi.h)
           /\ SumCf(Items(fi.h)) = SumCf(Items(fi.before)) + SumCf(fi.tmp)

\* insert<true>() with a skipping truncator has inserted a term for which
\* filter returns true
C38_Witness ==
    /\ pc = "insert" /\ fi.st = "inserted"
    /\ is_active(fi.tr) /\ is_skipping(fi.tr)
    /\ fi.CheckFilter
    /\ \E n \in 1..Len(fi.tmp) :
            /\ ~is_ignorable(fi.tmp[n])
            /\ functor_filter(fi.tr, fi.tmp[n])
            /\ fi.tmp[n].key \in KeysIn(fi.h)
            /\ fi.tmp[n].key \notin KeysIn(fi.before)

\* C39: a series returned by a multiplication of two non-empty operands
\* carries the symbol set of the operands, on the single-threaded path and
\* on the multi-threaded path, whether the series that receives the merge is
\* one of the workers' or a fresh one; with an empty operand the series
\* returned is a default-constructed one, with the default symbol set
C39_SymbolSet ==
    outcome.st = "returned" =>
        IF empty(m_s1) \/ empty(m_s2)
        THEN retval_sym = NoSymbols
        ELSE retval_sym = m_s1.sym /\ retval_sym = m_s2.sym

\* a multi-threaded multiplication has returned the series of one of the
\* workers, with terms in it
C39_Witness ==
    /\ pc = "done" /\ outcome.st = "returned"
    /\ n_threads > 1
    /\ Len(retval_list) = n_threads - 1
    /\ retval.n >= 1
    /\ retval_sym = m_s1.sym

\* C39 as stated: the symbol set of the operands on every path, the return
\* for an empty operand included
C39_OperandSymbols ==
    outcome.st = "returned" => (retval_sym = m_s1.sym /\ retval_sym = m_s2.sym)

====
